---- MODULE Spec2Model ----
(***************************************************************************)
(* The applications of the installation, each modelled from its source.    *)
(*                                                                         *)
(* past_images/main.py, the person-removal pipeline                        *)
(*   segment_image -> find_matching_face -> select_best_mask ->            *)
(*   inpaint_with_lama, sequenced by process_images:                       *)
(*   SpecSelect     select_best_mask applied to drawn candidates and box   *)
(*   SpecMatch      find_matching_face, one action per block               *)
(*   Spec           process_images, one action per stage of the request    *)
(*   SpecModels     initialize_models called from three threads            *)
(*   SpecRuns       two process_images requests on the shared volumes      *)
(* past_messages/main.py                                                   *)
(*   SpecDownload   download_html and its retries                          *)
(*   SpecGenerate   generate_continuation, body or stored session          *)
(*   SpecSession    save_session interleaved with load_session             *)
(* present/main.py                                                         *)
(*   SpecChat       chat_loop and its message history                      *)
(* future/main.py                                                          *)
(*   SpecBooth      generate_start, its background task, generate_status   *)
(*   SpecComposite  create_composite_image applied to drawn path lists     *)
(*                                                                         *)
(* The specifications share one list of variables; each leaves the         *)
(* variables of the others at their idle values.                           *)
(*                                                                         *)
(* Conventions.  Python indices are kept 0-based in every value the code   *)
(* computes (mask index, largest_idx, idx); TLA+ sequences are 1-based, so *)
(* element i of a Python list is s[i + 1].  None is the string "None".     *)
(* A raised exception is a record [exc |-> type, msg |-> message].         *)
(***************************************************************************)
EXTENDS Integers, Sequences, FiniteSets, TLC

VARIABLES
    \* select_best_mask (also the stage-3 state of process_images)
    masks,              \* list of mask_data dicts returned by SAM
    mask_files,         \* MASK_DIR/<session>/mask_<i>.png as cv2.imread sees it
    face_bbox,          \* dict returned by find_matching_face
    selection,          \* outcome of the select_best_mask call
    \* find_matching_face: its locals and its outcome
    fm_pc,              \* the block of find_matching_face to run next
    query_locations,    \* faces detected in the reference (query) image
    face_areas,         \* (area, idx) tuples, sorted in place at line 253
    largest_idx,
    query_encoding,
    target_locations,   \* faces detected in the target image
    target_encodings,
    match,              \* outcome of the find_matching_face call
    \* process_images: one request
    pc,                 \* the step of process_images to run next
    reference,          \* the uploaded reference file
    session_id,         \* the session_id parameter, then the local of that name
    targets,            \* the uploaded target files
    idx,                \* loop variable of "for idx, target_file in enumerate(targets)"
    results,
    response,           \* the HTTP answer, once given
    calls,              \* history: the stage calls made for this request, in order
    lama_env,           \* what the environment did during the inpaint_with_lama call
    lama,               \* outcome of the inpaint_with_lama call
    \* initialize_models and its callers, one thread each
    th_pc,              \* per thread: the line it is at
    model_lock,         \* _model_lock: the thread holding it, or None
    models_loaded,      \* _models_loaded
    sam_generator,      \* the nonlocal of that name: 0 for None, else the generator
    loads,              \* history: the loads of the SAM model that completed
    returned,           \* history, per thread: what its calls handed it, in order
    started,            \* per thread: the calls it has begun
    \* download_html of past_messages/main.py: one request
    dl_pc,              \* the line of download_html to run next
    filename,           \* the path parameter, as its components
    attempt,            \* loop variable of "for attempt in range(max_retries)"
    volume_file,        \* whether the committed volume holds the file
    local_file,         \* whether this container's view of the volume holds it
    dl_log,             \* history: reloads, existence checks and sleeps, in order
    dl_response,        \* the HTTP answer, once given
    \* generate_continuation of past_messages/main.py: one request
    gc_pc,              \* the line of generate_continuation to run next
    body,               \* the request body
    session_store,      \* SESSION_DIR/<session_id>.json: whether it exists, its data
    result,             \* the local of that name
    gc_log,             \* history: load_session, chat API, HTML write, commit
    gc_response,        \* the HTTP answer, once given
    \* save_session and load_session of past_messages/main.py on one session id
    sv_pc,              \* the line of save_session to run next
    sv_data,            \* the data parameter of save_session, as its JSON text
    session_dir,        \* SESSION_DIR: per file name, whether it exists, its content
    ld_pc,              \* per load_session call: the line to run next
    ld_result,          \* per load_session call: what it returned
    \* chat_loop of present/main.py
    chat_pc,            \* the line of chat_loop to run next
    messages,           \* the conversation history
    user_input,         \* the local of that name: the line read, stripped
    assistant_message,  \* the local of that name: the chunks streamed so far
    before,             \* history: the messages when the last line was read
    call_failed,        \* history: the call for the last line raised an exception
    \* the photo booth of future/main.py: one generation session
    gs_pc,              \* generate_start: not called, or how it ended
    config,             \* config.yml as generate_start finds it
    generation_sessions,\* the dict of that name (line 125)
    bg_pc,              \* generate_scenes_background: where the task is
    scene_idx,          \* the position in scenes of the scene being transformed
    polls,              \* history: the answers of generate_status, in order
    \* create_composite_image of future/main.py: one call
    image_paths,        \* the parameter of that name
    composite,          \* outcome of the call: the exception raised or the pastes made
    \* two process_images requests of past_images/main.py on the shared volumes
    run_pc,             \* per request: the stage to run next
    run_sid,            \* per request: its session_id, once line 520 has run
    mask_dirs,          \* MASK_DIR: per directory name, the request whose masks it holds (0: none)
    lama_in,            \* OUTPUT_DIR: per *_lama_in directory, the request whose files it holds
    lama_out,           \* OUTPUT_DIR: per *_lama_out directory, the request whose result it holds
    outputs,            \* OUTPUT_DIR: per output file name, the request that wrote it
    collisions          \* history: the accesses of a request to files of the other

selVars == <<masks, mask_files, face_bbox, selection>>
fmVars == <<fm_pc, query_locations, face_areas, largest_idx, query_encoding,
            target_locations, target_encodings, match>>
lamaVars == <<lama_env, lama>>
initVars == <<th_pc, model_lock, models_loaded, sam_generator, loads, returned, started>>
requestVars == <<pc, reference, session_id, targets, idx, results, response, calls,
                 lamaVars>>
imageVars == <<selVars, fmVars, requestVars, initVars>>
\* the variables of the applications other than past_images
dlVars == <<dl_pc, filename, attempt, volume_file, local_file, dl_log, dl_response>>
gcVars == <<gc_pc, body, session_store, result, gc_log, gc_response>>
ssVars == <<sv_pc, sv_data, session_dir, ld_pc, ld_result>>
chatVars == <<chat_pc, messages, user_input, assistant_message, before, call_failed>>
boothVars == <<gs_pc, config, generation_sessions, bg_pc, scene_idx, polls>>
compositeVars == <<image_paths, composite>>
runVars == <<run_pc, run_sid, mask_dirs, lama_in, lama_out, outputs, collisions>>
extVars == <<dlVars, gcVars, ssVars, chatVars, boothVars, compositeVars, runVars>>
pipeVars == <<requestVars, initVars, extVars>>
vars == <<selVars, fmVars, pipeVars>>

None == "None"

Max(a, b) == IF a >= b THEN a ELSE b
Min(a, b) == IF a <= b THEN a ELSE b

\* the lists of at most n elements of S
SeqsUpTo(S, n) == UNION {[1 .. k -> S] : k \in 0 .. n}

(***************************************************************************)
(* Rasters.  A grayscale image read by cv2.imread is [h, w, pix]: pix is   *)
(* the set of <<x, y>> with a nonzero value (segment_image writes 0 / 255).*)
(***************************************************************************)
Raster(w, h, pix) == [h |-> h, w |-> w, pix |-> pix]

\* mask_image[top:bottom, left:right] followed by np.count_nonzero
CountNonzero(img, top, bottom, left, right) ==
    Cardinality({p \in img.pix : left <= p[1] /\ p[1] < right
                                 /\ top <= p[2] /\ p[2] < bottom})

\* mask_image[y, x] > 0
PixelPositive(img, x, y) == <<x, y>> \in img.pix


\* cv2.imread returns None for a file that is missing or cannot be decoded;
\* a file is [ok, h, w, pix] and None is ok = FALSE
NoFile == [ok |-> FALSE, h |-> 0, w |-> 0, pix |-> {}]
ImageFile(w, h, pix) == [ok |-> TRUE, h |-> h, w |-> w, pix |-> pix]

NoError == [exc |-> "", msg |-> ""]

\* no HTTP answer given yet
NoResponse == [status |-> 0, detail |-> "", session_id |-> "", results |-> <<>>,
               processed |-> 0, failed |-> 0]

\* raise HTTPException(status_code, detail): an answer without a JSON body
HTTPException(status_code, detail) ==
    [status |-> status_code, detail |-> detail, session_id |-> "",
     results |-> <<>>, processed |-> 0, failed |-> 0]

\* process_images not entered
\* the callers of initialize_models: the startup warm-up (lines 165-176),
\* process_images (line 526) and segment_image (line 189)
Threads == {"startup_event", "process_images", "segment_image"}

\* sam_generator = None (line 145)
NoGenerator == 0

\* the state of lines 143-145, before any call
ModelsNotLoaded ==
    /\ th_pc = [t \in Threads |-> "idle"]
    /\ model_lock = "None"
    /\ models_loaded = FALSE
    /\ sam_generator = NoGenerator
    /\ loads = 0
    /\ returned = [t \in Threads |-> <<>>]
    /\ started = [t \in Threads |-> 0]

\* the HTTP answers of the other applications: a status and a detail
\* (status 0: no answer given yet, 200: the success answer of the handler)
NoAnswer == [status |-> 0, detail |-> ""]
Answer(status_code, detail) == [status |-> status_code, detail |-> detail]

\* download_html not entered
DownloadIdle ==
    /\ dl_pc = "idle"
    /\ filename = <<>>
    /\ attempt = 0
    /\ volume_file = FALSE
    /\ local_file = FALSE
    /\ dl_log = <<>>
    /\ dl_response = NoAnswer

\* generate_continuation not entered
GenerateIdle ==
    /\ gc_pc = "idle"
    /\ body = [kind |-> "empty"]
    /\ session_store = [exists |-> FALSE, data |-> [type |-> "None"]]
    /\ result = [type |-> "None"]
    /\ gc_log = <<>>
    /\ gc_response = NoAnswer

\* save_session and load_session not entered
SessionIdle ==
    /\ sv_pc = "idle"
    /\ sv_data = <<>>
    /\ session_dir = <<>>
    /\ ld_pc = <<>>
    /\ ld_result = <<>>

\* chat_loop not entered
ChatIdle ==
    /\ chat_pc = "idle"
    /\ messages = <<>>
    /\ user_input = <<>>
    /\ assistant_message = <<>>
    /\ before = <<>>
    /\ call_failed = FALSE

\* generate_start not entered
BoothIdle ==
    /\ gs_pc = "idle"
    /\ config = [kind |-> "missing", scenes |-> <<>>]
    /\ generation_sessions = <<>>
    /\ bg_pc = "none"
    /\ scene_idx = 0
    /\ polls = <<>>

\* create_composite_image not called
CompositeIdle ==
    /\ image_paths = <<>>
    /\ composite = [kind |-> "pending", error |-> "", pastes |-> <<>>]

\* no concurrent request entered
RunsIdle ==
    /\ run_pc = <<>>
    /\ run_sid = <<>>
    /\ mask_dirs = <<>>
    /\ lama_in = <<>>
    /\ lama_out = <<>>
    /\ outputs = <<>>
    /\ collisions = {}

\* the applications other than past_images, not started
ExtIdle ==
    /\ DownloadIdle
    /\ GenerateIdle
    /\ SessionIdle
    /\ ChatIdle
    /\ BoothIdle
    /\ CompositeIdle
    /\ RunsIdle

RequestIdle ==
    /\ ModelsNotLoaded
    /\ pc = "idle"
    /\ reference = [decodable |-> FALSE]
    /\ session_id = "None"
    /\ targets = <<>>
    /\ idx = 0
    /\ results = <<>>
    /\ response = NoResponse
    /\ calls = <<>>
    /\ lama_env = [mask_written |-> FALSE, returncode |-> 0, outputs |-> {},
                   valid |-> FALSE]
    /\ lama = [kind |-> "pending", result_path |-> "", error |-> NoError,
               probed |-> <<>>, runs |-> 0]

\* process_images not entered, the other applications not started
PipelineIdle == RequestIdle /\ ExtIdle

(***************************************************************************)
(* STEP 3: select_best_mask (lines 283-370)                                *)
(***************************************************************************)
\* line 364
NoOverlapError == [exc |-> "ValueError", msg |-> "No masks overlap with the detected face"]

\* threshold of line 333, in percent
MinOverlapPercent == 10

\* line 301
FaceArea(bbox) == (bbox.right - bbox.left) * (bbox.bottom - bbox.top)

\* lines 330 and 333: (overlap_pixels / face_area) * 100 >= 10 when
\* face_area > 0, else 0 >= 10.  The code computes this in IEEE doubles; for
\* integer operands below 2^26 the rounded quotient times 100 compares with 10
\* exactly as 100 * overlap_pixels compares with 10 * face_area.
OverlapQualifies(overlap_pixels, face_area) ==
    IF face_area > 0
    THEN overlap_pixels * 100 >= MinOverlapPercent * face_area
    ELSE 0 >= MinOverlapPercent

\* body of the first loop (lines 309-340) for candidate i: the entry appended
\* to overlapping_masks, as a list of zero or one element
Tier1Entry(mask_data, mask_image, i, bbox) ==
    IF ~mask_image.ok THEN <<>>
    ELSE LET crop_top    == Max(0, bbox.top)
             crop_bottom == Min(mask_image.h, bbox.bottom)
             crop_left   == Max(0, bbox.left)
             crop_right  == Min(mask_image.w, bbox.right)
         IN  IF crop_top >= crop_bottom \/ crop_left >= crop_right THEN <<>>
             ELSE LET overlap_pixels ==
                          CountNonzero(mask_image, crop_top, crop_bottom,
                                       crop_left, crop_right)
                  IN  IF OverlapQualifies(overlap_pixels, FaceArea(bbox))
                      THEN <<[index |-> i, area |-> mask_data.area,
                              overlap_pixels |-> overlap_pixels]>>
                      ELSE <<>>

\* the first loop over enumerate(masks), candidates 0 .. n-1
RECURSIVE Tier1Scan(_, _, _, _)
Tier1Scan(ms, files, bbox, n) ==
    IF n = 0 THEN <<>>
    ELSE Tier1Scan(ms, files, bbox, n - 1)
         \o Tier1Entry(ms[n], files[n], n - 1, bbox)

\* variant: the raster indexed [x, y] instead of [y, x]
Tier2EntrySwappedAxes(mask_data, mask_image, i, bbox) ==
    LET face_center_x == (bbox.left + bbox.right) \div 2
        face_center_y == (bbox.top + bbox.bottom) \div 2
    IN  IF ~mask_image.ok THEN <<>>
        ELSE IF /\ 0 <= face_center_y /\ face_center_y < mask_image.h
                /\ 0 <= face_center_x /\ face_center_x < mask_image.w
                /\ PixelPositive(mask_image, face_center_y, face_center_x)
             THEN <<[index |-> i, area |-> mask_data.area, overlap_pixels |-> 1]>>
             ELSE <<>>

\* body of the fallback loop (lines 348-361) for candidate i
Tier2Entry(mask_data, mask_image, i, bbox) ==
    LET face_center_x == (bbox.left + bbox.right) \div 2
        face_center_y == (bbox.top + bbox.bottom) \div 2
    IN  IF ~mask_image.ok THEN <<>>
        ELSE IF /\ 0 <= face_center_y /\ face_center_y < mask_image.h
                /\ 0 <= face_center_x /\ face_center_x < mask_image.w
                /\ PixelPositive(mask_image, face_center_x, face_center_y)
             THEN <<[index |-> i, area |-> mask_data.area, overlap_pixels |-> 1]>>
             ELSE <<>>

RECURSIVE Tier2Scan(_, _, _, _)
Tier2Scan(ms, files, bbox, n) ==
    IF n = 0 THEN <<>>
    ELSE Tier2Scan(ms, files, bbox, n - 1)
         \o Tier2Entry(ms[n], files[n], n - 1, bbox)

\* variant: max() keeping the last item of maximal key
RECURSIVE MaxByAreaLast(_)
MaxByAreaLast(s) ==
    IF Len(s) = 1 THEN s[1]
    ELSE LET best == MaxByAreaLast(SubSeq(s, 1, Len(s) - 1))
         IN  IF s[Len(s)].area >= best.area THEN s[Len(s)] ELSE best

\* variant: the key is overlap_pixels instead of area
RECURSIVE MaxByOverlap(_)
MaxByOverlap(s) ==
    IF Len(s) = 1 THEN s[1]
    ELSE LET best == MaxByOverlap(SubSeq(s, 1, Len(s) - 1))
         IN  IF s[Len(s)].overlap_pixels > best.overlap_pixels
             THEN s[Len(s)] ELSE best

\* max(overlapping_masks, key=lambda x: x['area']): the first item of maximal key
RECURSIVE MaxByArea(_)
MaxByArea(s) ==
    IF Len(s) = 1 THEN s[1]
    ELSE LET best == MaxByArea(SubSeq(s, 1, Len(s) - 1))
         IN  IF s[Len(s)].area > best.area THEN s[Len(s)] ELSE best

ZeroDivisionError == [exc |-> "ZeroDivisionError", msg |-> "division by zero"]
UnreadableMaskError == [exc |-> "ValueError", msg |-> "Could not read mask"]

\* variant: the first loop without the empty-crop skip and without the
\* face_area > 0 guard, so that the division is reached with face_area = 0
SelectBestMaskUnguardedDivision(ms, files, bbox) ==
    LET tier1 == Tier1Scan(ms, files, bbox, Len(ms))
        tier2 == Tier2Scan(ms, files, bbox, Len(ms))
    IN  IF FaceArea(bbox) = 0 /\ \E i \in DOMAIN files : files[i].ok
        THEN [kind |-> "raise", index |-> -1, tier |-> 1,
              overlapping_masks |-> <<>>, error |-> ZeroDivisionError]
        ELSE IF tier1 # <<>>
        THEN [kind |-> "index", index |-> MaxByArea(tier1).index, tier |-> 1,
              overlapping_masks |-> tier1, error |-> NoError]
        ELSE IF tier2 # <<>>
        THEN [kind |-> "index", index |-> MaxByArea(tier2).index, tier |-> 2,
              overlapping_masks |-> tier2, error |-> NoError]
        ELSE [kind |-> "raise", index |-> -1, tier |-> 2,
              overlapping_masks |-> <<>>, error |-> NoOverlapError]

\* variant: a raster that cannot be read ends the selection with an error
SelectBestMaskUnreadableFatal(ms, files, bbox) ==
    LET tier1 == Tier1Scan(ms, files, bbox, Len(ms))
        tier2 == Tier2Scan(ms, files, bbox, Len(ms))
    IN  IF \E i \in DOMAIN files : ~files[i].ok
        THEN [kind |-> "raise", index |-> -1, tier |-> 1,
              overlapping_masks |-> <<>>, error |-> UnreadableMaskError]
        ELSE IF tier1 # <<>>
        THEN [kind |-> "index", index |-> MaxByArea(tier1).index, tier |-> 1,
              overlapping_masks |-> tier1, error |-> NoError]
        ELSE IF tier2 # <<>>
        THEN [kind |-> "index", index |-> MaxByArea(tier2).index, tier |-> 2,
              overlapping_masks |-> tier2, error |-> NoError]
        ELSE [kind |-> "raise", index |-> -1, tier |-> 2,
              overlapping_masks |-> <<>>, error |-> NoOverlapError]

\* variant: with no qualifier the first candidate is returned instead of raising
SelectBestMaskDefaultFirst(ms, files, bbox) ==
    LET tier1 == Tier1Scan(ms, files, bbox, Len(ms))
        tier2 == Tier2Scan(ms, files, bbox, Len(ms))
    IN  IF tier1 # <<>>
        THEN [kind |-> "index", index |-> MaxByArea(tier1).index, tier |-> 1,
              overlapping_masks |-> tier1, error |-> NoError]
        ELSE IF tier2 # <<>>
        THEN [kind |-> "index", index |-> MaxByArea(tier2).index, tier |-> 2,
              overlapping_masks |-> tier2, error |-> NoError]
        ELSE IF Len(ms) > 0
        THEN [kind |-> "index", index |-> 0, tier |-> 2,
              overlapping_masks |-> <<>>, error |-> NoError]
        ELSE [kind |-> "raise", index |-> -1, tier |-> 2,
              overlapping_masks |-> <<>>, error |-> NoOverlapError]

\* the whole call: kind "index" with the returned index, or kind "raise";
\* tier and overlapping_masks record the local state at the return
SelectBestMask(ms, files, bbox) ==
    LET tier1 == Tier1Scan(ms, files, bbox, Len(ms))
        tier2 == Tier2Scan(ms, files, bbox, Len(ms))
    IN  IF tier1 # <<>>
        THEN [kind |-> "index", index |-> MaxByArea(tier1).index, tier |-> 1,
              overlapping_masks |-> tier1, error |-> NoError]
        ELSE IF tier2 # <<>>
        THEN [kind |-> "index", index |-> MaxByArea(tier2).index, tier |-> 2,
              overlapping_masks |-> tier2, error |-> NoError]
        ELSE [kind |-> "raise", index |-> -1, tier |-> 2,
              overlapping_masks |-> <<>>, error |-> NoOverlapError]

NotCalled == [kind |-> "pending", index |-> -1, tier |-> 0,
              overlapping_masks |-> <<>>, error |-> NoError]

(***************************************************************************)
(* STEP 2: find_matching_face (lines 228-277)                              *)
(*                                                                         *)
(* A detected face is [top, right, bottom, left, enc]: the box that        *)
(* face_locations returns and, as enc, the encoding that face_encodings    *)
(* yields for that box.  Encodings are points of a line and face_distance  *)
(* is the distance between them, in tenths.                                *)
(***************************************************************************)
\* threshold = 0.6 (line 261), in tenths
MatchThreshold == 6

\* face_recognition.face_distance for one pair
Distance(a, b) == IF a >= b THEN a - b ELSE b - a

\* line 244
NoQueryFaceError == [exc |-> "ValueError", msg |-> "No faces found in query image"]

\* lines 249-252
FaceAreas(locations) ==
    [i \in 1 .. Len(locations) |->
        <<(locations[i].bottom - locations[i].top)
            * (locations[i].right - locations[i].left), i - 1>>]

\* Python's order on (area, idx) tuples
TupleLess(a, b) == a[1] < b[1] \/ (a[1] = b[1] /\ a[2] < b[2])

RemoveAt(s, i) == SubSeq(s, 1, i - 1) \o SubSeq(s, i + 1, Len(s))

\* variant: ascending order (reverse=True left out)
RECURSIVE SortAscending(_)
SortAscending(s) ==
    IF s = <<>> THEN <<>>
    ELSE LET m == CHOOSE i \in 1 .. Len(s) :
                      \A j \in 1 .. Len(s) : j = i \/ TupleLess(s[i], s[j])
         IN  <<s[m]>> \o SortAscending(RemoveAt(s, m))

\* variant: a stable descending sort on the area alone (key=area), which keeps
\* tied faces in detector order
RECURSIVE SortByAreaStable(_)
SortByAreaStable(s) ==
    IF s = <<>> THEN <<>>
    ELSE LET m == CHOOSE i \in 1 .. Len(s) :
                      /\ \A j \in 1 .. Len(s) : s[j][1] <= s[i][1]
                      /\ \A j \in 1 .. i - 1 : s[j][1] < s[i][1]
         IN  <<s[m]>> \o SortByAreaStable(RemoveAt(s, m))

\* face_areas.sort(reverse=True) (line 253): descending in the tuple order;
\* the tuples are pairwise different, so the result is unique
RECURSIVE SortReverse(_)
SortReverse(s) ==
    IF s = <<>> THEN <<>>
    ELSE LET m == CHOOSE i \in 1 .. Len(s) :
                      \A j \in 1 .. Len(s) : j = i \/ TupleLess(s[j], s[i])
         IN  <<s[m]>> \o SortReverse(RemoveAt(s, m))

NoIdx == -1

\* lines 246-257 on a non-empty query_locations: the locals after the block
UseLargest(locations) ==
    IF Len(locations) > 1
    THEN LET sorted == SortReverse(FaceAreas(locations))
             largest == sorted[1][2]
         IN  [face_areas |-> sorted, largest_idx |-> largest,
              query_locations |-> <<locations[largest + 1]>>,
              query_encoding |-> locations[largest + 1].enc]
    ELSE [face_areas |-> <<>>, largest_idx |-> NoIdx,
          query_locations |-> locations,
          query_encoding |-> locations[1].enc]

\* line 260
FaceDistances(encodings, encoding) ==
    [i \in 1 .. Len(encodings) |-> Distance(encodings[i], encoding)]

NoMatch == [kind |-> "None", top |-> 0, right |-> 0, bottom |-> 0, left |-> 0,
            distance |-> 0, error |-> NoError]
MatchPending == [kind |-> "pending", top |-> 0, right |-> 0, bottom |-> 0,
                 left |-> 0, distance |-> 0, error |-> NoError]
MatchRaise(e) == [kind |-> "raise", top |-> 0, right |-> 0, bottom |-> 0,
                  left |-> 0, distance |-> 0, error |-> e]
MatchFace(loc, dist) ==
    [kind |-> "face", top |-> loc.top, right |-> loc.right,
     bottom |-> loc.bottom, left |-> loc.left, distance |-> dist,
     error |-> NoError]

\* variant: the closest face under the threshold instead of the first
ClosestMatch(locations, distances, i) ==
    LET under == {k \in 1 .. Min(Len(locations), Len(distances)) :
                      distances[k] <= MatchThreshold}
    IN  IF under = {} THEN NoMatch
        ELSE LET k == CHOOSE k \in under :
                          \A j \in under :
                              distances[k] < distances[j]
                              \/ (distances[k] = distances[j] /\ k <= j)
             IN  MatchFace(locations[k], distances[k])

\* variant: with no face under the threshold the first detected face is returned
RECURSIVE FirstMatchOrFirstFace(_, _, _)
FirstMatchOrFirstFace(locations, distances, i) ==
    IF i > Len(locations) \/ i > Len(distances)
    THEN IF Len(locations) > 0 /\ Len(distances) > 0
         THEN MatchFace(locations[1], distances[1]) ELSE NoMatch
    ELSE IF distances[i] <= MatchThreshold
         THEN MatchFace(locations[i], distances[i])
         ELSE FirstMatchOrFirstFace(locations, distances, i + 1)

\* lines 262-277: the loop over zip(target_locations, matches, distances) from
\* position i on; the first face with distance <= threshold, or None
RECURSIVE FirstMatch(_, _, _)
FirstMatch(locations, distances, i) ==
    IF i > Len(locations) \/ i > Len(distances) THEN NoMatch
    ELSE IF distances[i] <= MatchThreshold
         THEN MatchFace(locations[i], distances[i])
         ELSE FirstMatch(locations, distances, i + 1)

\* variant: a reference without a face gives None instead of raising
FindMatchingFaceNoneOnEmptyQuery(t_locations, t_encodings, q_locations) ==
    IF Len(q_locations) = 0 THEN NoMatch
    ELSE FirstMatch(t_locations,
                    FaceDistances(t_encodings, UseLargest(q_locations).query_encoding),
                    1)

\* the whole call
FindMatchingFace(t_locations, t_encodings, q_locations) ==
    IF Len(q_locations) = 0 THEN MatchRaise(NoQueryFaceError)
    ELSE FirstMatch(t_locations,
                    FaceDistances(t_encodings, UseLargest(q_locations).query_encoding),
                    1)

(***************************************************************************)
(* Inputs of find_matching_face: boxes with the corner at the origin and   *)
(* sides 1 or 2 (areas 1, 2, 2, 4), encodings 0.0, 0.3, 0.6, 0.9 apart.    *)
(***************************************************************************)
MaxQueryFaces == 2
MaxTargetFaces == 2

FaceSides == {1, 2}
EncValues == {0, 3, 6, 9}

DetectedFaces ==
    {[top |-> 0, right |-> r, bottom |-> b, left |-> 0, enc |-> e] :
        r \in FaceSides, b \in FaceSides, e \in EncValues}

Box(face) == [top |-> face.top, right |-> face.right,
              bottom |-> face.bottom, left |-> face.left]

MatchIdle ==
    /\ fm_pc = "idle"
    /\ query_locations = <<>>
    /\ face_areas = <<>>
    /\ largest_idx = NoIdx
    /\ query_encoding = 0
    /\ target_locations = <<>>
    /\ target_encodings = <<>>
    /\ match = MatchPending

InitMatch ==
    /\ fm_pc = "detect_query"
    /\ query_locations = <<>>
    /\ face_areas = <<>>
    /\ largest_idx = NoIdx
    /\ query_encoding = 0
    /\ target_locations = <<>>
    /\ target_encodings = <<>>
    /\ match = MatchPending
    /\ masks = <<>> /\ mask_files = <<>>
    /\ face_bbox = NoMatch
    /\ selection = NotCalled
    /\ PipelineIdle

\* lines 242-244: detect the faces of the reference image
DetectQuery ==
    /\ fm_pc = "detect_query"
    /\ \E faces \in SeqsUpTo(DetectedFaces, MaxQueryFaces) :
          /\ query_locations' = faces
          /\ IF Len(faces) = 0
             THEN fm_pc' = "raised" /\ match' = MatchRaise(NoQueryFaceError)
             ELSE fm_pc' = "use_largest" /\ match' = match
    /\ UNCHANGED <<face_areas, largest_idx, query_encoding, target_locations,
                   target_encodings, selVars, pipeVars>>

\* lines 246-257: keep the largest face and take its encoding
UseLargestFace ==
    /\ fm_pc = "use_largest"
    /\ LET after == UseLargest(query_locations)
       IN  /\ face_areas' = after.face_areas
           /\ largest_idx' = after.largest_idx
           /\ query_locations' = after.query_locations
           /\ query_encoding' = after.query_encoding
    /\ fm_pc' = "detect_target"
    /\ UNCHANGED <<target_locations, target_encodings, match, selVars, pipeVars>>

\* lines 239-240: the detector's answer for the target image.  The code asks
\* for it before lines 242-257, which neither read nor change it; it is drawn
\* here, where line 260 first reads it.
DetectTarget ==
    /\ fm_pc = "detect_target"
    /\ \E faces \in SeqsUpTo(DetectedFaces, MaxTargetFaces) :
          /\ target_locations' = [i \in DOMAIN faces |-> Box(faces[i])]
          /\ target_encodings' = [i \in DOMAIN faces |-> faces[i].enc]
    /\ fm_pc' = "compare"
    /\ UNCHANGED <<query_locations, face_areas, largest_idx, query_encoding,
                   match, selVars, pipeVars>>

\* lines 259-277: compare and return
CompareFaces ==
    /\ fm_pc = "compare"
    /\ match' = FirstMatch(target_locations,
                           FaceDistances(target_encodings, query_encoding), 1)
    /\ fm_pc' = "done"
    /\ UNCHANGED <<query_locations, face_areas, largest_idx, query_encoding,
                   target_locations, target_encodings, selVars, pipeVars>>

NextMatch == DetectQuery \/ UseLargestFace \/ DetectTarget \/ CompareFaces

SpecMatch == InitMatch /\ [][NextMatch]_vars

(***************************************************************************)
(* Inputs of select_best_mask.  Candidates are the vertical strips of 1 or *)
(* 2 pixels in a 6 x 3 image (face boxes of area 10 and 12 fit, so that    *)
(* exactly 10%, less than 10% and more than 10% of the face all occur),    *)
(* each saved as mask_<i>.png by segment_image, or one whose file cannot   *)
(* be read.                                                                *)
(***************************************************************************)
MaxMasks == 2

SelCols == 0 .. 5
SelRows == 0 .. 2
SelW == Cardinality(SelCols)
SelH == Cardinality(SelRows)
StripWidths == {1}
StripHeights == {1, 2}
\* columns in which a mask strip is placed: the first, the centre one and the last
StripCols == {0, 3, 5}

RectPix(x0, x1, y0, y1) == {p \in (x0 .. x1 - 1) \X (y0 .. y1 - 1) : TRUE}

SelShapes ==
    {RectPix(q[1], q[1] + q[2], q[3], q[3] + q[4]) :
        q \in {r \in StripCols \X StripWidths \X SelRows \X StripHeights :
                  r[1] + r[2] <= SelW /\ r[3] + r[4] <= SelH}}

\* SAM's mask record: area is the pixel count of the segmentation
MaskData(pix) == [area |-> Cardinality(pix), segmentation |-> pix]

\* a candidate with the file segment_image wrote for it (lines 205-207), or
\* with no readable file
SelCandidates ==
    {[data |-> MaskData(pix), file |-> ImageFile(SelW, SelH, pix)] : pix \in SelShapes}
    \cup {[data |-> MaskData(RectPix(0, SelW, 0, SelH)), file |-> NoFile]}

\* boxes with right < left, bottom < top or both (the last with a positive
\* product of the sides), and an empty box away from the origin
ReversedBoxes ==
    {MatchFace([top |-> 0, right |-> 1, bottom |-> 2, left |-> 2], 0),
     MatchFace([top |-> 2, right |-> 2, bottom |-> 1, left |-> 0], 0),
     MatchFace([top |-> 2, right |-> 1, bottom |-> 1, left |-> 2], 0),
     MatchFace([top |-> 0, right |-> 1, bottom |-> 2, left |-> 1], 0)}

\* face boxes inside the image with the corner at the origin, the empty ones
\* (right = left or bottom = top) included, and the reversed ones
SelBoxes ==
    {MatchFace([top |-> 0, right |-> r, bottom |-> b, left |-> 0], 0) :
        r \in 0 .. SelW, b \in 0 .. SelH}
    \cup ReversedBoxes

InitSelect ==
    /\ \E cs \in SeqsUpTo(SelCandidates, MaxMasks) :
          /\ masks = [i \in DOMAIN cs |-> cs[i].data]
          /\ mask_files = [i \in DOMAIN cs |-> cs[i].file]
    /\ face_bbox \in SelBoxes
    /\ selection = NotCalled
    /\ MatchIdle
    /\ PipelineIdle

\* mask_idx = select_best_mask(masks, face_bbox, session)
CallSelectBestMask ==
    /\ selection.kind = "pending"
    /\ selection' = SelectBestMask(masks, mask_files, face_bbox)
    /\ UNCHANGED <<masks, mask_files, face_bbox, fmVars, pipeVars>>

NextSelect == CallSelectBestMask

SpecSelect == InitSelect /\ [][NextSelect]_vars

(***************************************************************************)
(* STEP 4: inpaint_with_lama (lines 376-482), as a function of what the    *)
(* environment does: whether the mask file could be written, the exit      *)
(* status of the LaMa subprocess, the files it left in out_dir and whether *)
(* the chosen file is a valid image.                                       *)
(***************************************************************************)
\* lines 445-448, in probing order
possible_outputs == <<"image_mask001.png", "image.png">>

InpaintEnvs ==
    [mask_written : BOOLEAN, returncode : {0, 1},
     outputs : SUBSET {"image_mask001.png", "image.png"}, valid : BOOLEAN]

\* the outcome of a call with what it did on the way: the candidate names
\* whose existence it tested, in order, and how often it ran the subprocess
InpaintRaise(e, probed, runs) ==
    [kind |-> "raise", result_path |-> "", error |-> e, probed |-> probed,
     runs |-> runs]
InpaintResult(path, probed, runs) ==
    [kind |-> "image", result_path |-> path, error |-> NoError,
     probed |-> probed, runs |-> runs]

LamaFailedError == [exc |-> "RuntimeError", msg |-> "LaMa prediction failed with return code"]
LamaOutputMissingError == [exc |-> "FileNotFoundError", msg |-> "LaMa output not found"]
MaskWriteError == [exc |-> "RuntimeError", msg |-> "Failed to write mask file"]
InvalidImageError == [exc |-> "Exception", msg |-> "result image failed verify()"]

\* variant: image.png is tried before image_mask001.png
RECURSIVE ProbeOutputsReversed(_, _)
ProbeOutputsReversed(existing, i) ==
    IF i > Len(possible_outputs) THEN None
    ELSE IF possible_outputs[Len(possible_outputs) + 1 - i] \in existing
         THEN possible_outputs[Len(possible_outputs) + 1 - i]
    ELSE ProbeOutputsReversed(existing, i + 1)

\* lines 450-454: the first candidate name that exists, or None
RECURSIVE ProbeOutputs(_, _)
ProbeOutputs(existing, i) ==
    IF i > Len(possible_outputs) THEN None
    ELSE IF possible_outputs[i] \in existing THEN possible_outputs[i]
    ELSE ProbeOutputs(existing, i + 1)

\* the names on which the loop of lines 451-454 calls path.exists()
RECURSIVE Probed(_, _)
Probed(existing, i) ==
    IF i > Len(possible_outputs) THEN <<>>
    ELSE IF possible_outputs[i] \in existing THEN <<possible_outputs[i]>>
    ELSE <<possible_outputs[i]>> \o Probed(existing, i + 1)

\* variant: an output file that exists is used whatever the exit status
InpaintWithLamaIgnoresExit(env) ==
    IF ~env.mask_written THEN InpaintRaise(MaskWriteError, <<>>, 0)
    ELSE LET result_path == ProbeOutputs(env.outputs, 1)
             probed == Probed(env.outputs, 1)
         IN  IF result_path = None
             THEN IF env.returncode # 0
                  THEN InpaintRaise(LamaFailedError, probed, 1)
                  ELSE InpaintRaise(LamaOutputMissingError, probed, 1)
             ELSE IF ~env.valid THEN InpaintRaise(InvalidImageError, probed, 1)
             ELSE InpaintResult(result_path, probed, 1)

\* variant: the subprocess is run a second time after a nonzero exit
InpaintWithLamaRetries(env) ==
    IF ~env.mask_written THEN InpaintRaise(MaskWriteError, <<>>, 0)
    ELSE IF env.returncode # 0 THEN InpaintRaise(LamaFailedError, <<>>, 2)
    ELSE LET result_path == ProbeOutputs(env.outputs, 1)
             probed == Probed(env.outputs, 1)
         IN  IF result_path = None
             THEN InpaintRaise(LamaOutputMissingError, probed, 1)
             ELSE IF ~env.valid THEN InpaintRaise(InvalidImageError, probed, 1)
             ELSE InpaintResult(result_path, probed, 1)

\* the whole call: the mask is written (line 400), the subprocess is run once
\* (line 426), its exit status is checked (lines 440-441), the candidate
\* outputs are probed (lines 445-464) and the one found is verified (467-472)
InpaintWithLama(env) ==
    IF ~env.mask_written THEN InpaintRaise(MaskWriteError, <<>>, 0)
    ELSE IF env.returncode # 0 THEN InpaintRaise(LamaFailedError, <<>>, 1)
    ELSE LET result_path == ProbeOutputs(env.outputs, 1)
             probed == Probed(env.outputs, 1)
         IN  IF result_path = None
             THEN InpaintRaise(LamaOutputMissingError, probed, 1)
             ELSE IF ~env.valid THEN InpaintRaise(InvalidImageError, probed, 1)
             ELSE InpaintResult(result_path, probed, 1)

(***************************************************************************)
(* process_images (lines 501-636): one action per step of the request.     *)
(* The exception handler of the loop body (lines 612-619) is part of every *)
(* step that can raise.                                                    *)
(***************************************************************************)
\* uploads per request that the model draws
MaxBatch == 3

\* line 516: len(targets) > 1 is refused
\* a limit that admits every batch the model draws
MaxTargetsAsBatch == MaxBatch

MaxTargetsAllowed == 1

\* an uploaded file: whether PIL can open it
TargetFiles == [decodable : BOOLEAN]

\* the detector's answers in a request: a 2 x 2 target image with strip masks
\* in its first column, a reference with faces of one size, square target
\* faces that match (distance 0) or do not (distance 0.9)
PipeCols == 0 .. 1
PipeRows == 0 .. 1
PipeW == Cardinality(PipeCols)
PipeH == Cardinality(PipeRows)

PipeShapes ==
    {RectPix(q[1], q[1] + q[2], q[3], q[3] + q[4]) :
        q \in {r \in {0} \X StripWidths \X PipeRows \X StripHeights :
                  r[1] + r[2] <= PipeW /\ r[3] + r[4] <= PipeH}}

PipeCandidates ==
    {[data |-> MaskData(pix), file |-> ImageFile(PipeW, PipeH, pix)] : pix \in PipeShapes}
    \cup {[data |-> MaskData(RectPix(0, PipeW, 0, PipeH)), file |-> NoFile]}

PipeQueryFaces == {f \in DetectedFaces : f.right = 1 /\ f.bottom = 1 /\ f.enc = 0}
PipeTargetFaces == {f \in DetectedFaces : f.right = f.bottom /\ f.enc \in {0, 9}}

\* line 554
NoMatchingFaceError == [exc |-> "ValueError", msg |-> "No matching face found"]
\* line 564
MaskLoadError == [exc |-> "ValueError", msg |-> "Could not load mask"]
\* lines 584-598
SaveErrors ==
    {[exc |-> "RuntimeError", msg |-> "Failed to save output file"],
     [exc |-> "RuntimeError", msg |-> "Output file is empty"],
     [exc |-> "RuntimeError", msg |-> "Saved image is corrupted"],
     [exc |-> "Exception", msg |-> "outputs_volume.commit() failed"]}
\* Image.open on an upload that is no image (line 543)
DecodeError == [exc |-> "UnidentifiedImageError", msg |-> "cannot identify image file"]
\* SAM or the mask directory failing inside segment_image
SegmentError == [exc |-> "OSError", msg |-> "segment_image failed"]

\* the dicts appended to results (lines 604-608 and 616-619)
SuccessEntry(i) ==
    [original |-> i, keys |-> {"original", "output", "url"},
     output |-> "output.jpg", url |-> "/outputs/output.jpg", error |-> ""]
\* variant: the failure entry keeps the output name and url as well
ErrorEntryWithOutput(i, e) ==
    [original |-> i, keys |-> {"original", "output", "url", "error"},
     output |-> "output.jpg", url |-> "/outputs/output.jpg", error |-> e.msg]
ErrorEntry(i, e) ==
    [original |-> i, keys |-> {"original", "error"},
     output |-> "", url |-> "", error |-> e.msg]

\* an entry of the history of stage calls
Call(stage, i, out, e, index, mask, nquery) ==
    [stage |-> stage, idx |-> i, out |-> out, error |-> e, index |-> index,
     mask |-> mask, nquery |-> nquery]

\* the loop goes on to the next target, or ends
NextImage ==
    /\ idx' = idx + 1
    /\ pc' = IF idx + 1 < Len(targets) THEN "load_target" ELSE "finish"

\* variant: an exception of a stage leaves the loop and fails the request
AbortBatch(e) ==
    /\ response' = HTTPException(500, e.msg)
    /\ pc' = "done"
    /\ UNCHANGED <<idx, results>>

\* variant: a failure of the session directory or of the saved output leaves
\* the loop and fails the request, any other is filed for the target
EscalateIOErrors(e) ==
    IF e \in SaveErrors \cup {SegmentError}
    THEN AbortBatch(e)
    ELSE /\ results' = Append(results, ErrorEntry(idx, e))
         /\ NextImage
         /\ UNCHANGED response

\* lines 612-619: except Exception as e: results.append({... "error": str(e)})
RecordImageError(e) ==
    /\ results' = Append(results, ErrorEntry(idx, e))
    /\ NextImage
    /\ UNCHANGED response

\* variant: the first mask file whatever index was selected
MaskPathFirst(mask_idx) == 0

\* line 560: the index in the file name mask_{mask_idx}.png
MaskPathIndex(mask_idx) == mask_idx

InitPipeline ==
    /\ PipelineIdle
    /\ MatchIdle
    /\ masks = <<>> /\ mask_files = <<>>
    /\ face_bbox = NoMatch
    /\ selection = NotCalled

\* session_id: str = None, or what the caller passes
SessionIds == {None, "s1"}

\* initialize_models failing (checkpoint missing, no GPU)
ModelLoadError == [exc |-> "RuntimeError", msg |-> "SAM model could not be loaded"]
\* outputs_volume.commit() or masks_volume.commit() of lines 621-622 failing
CommitError == [exc |-> "Exception", msg |-> "volume commit failed"]

\* variant: the reference is taken as loaded whatever the upload holds
ReferenceLoadsAlways(file) == TRUE

\* lines 530-533: Image.open on the reference upload succeeds
ReferenceLoads(file) == file.decodable

\* lines 501-522: the request arrives; more than one target is refused
ReceiveRequest ==
    /\ pc = "idle"
    /\ reference' \in TargetFiles
    /\ \E sid \in SessionIds, n \in 1 .. MaxBatch : \E files \in [1 .. n -> TargetFiles] :
          /\ targets' = files
          /\ IF n > MaxTargetsAllowed
             THEN /\ response' = HTTPException(400, "Maximum 1 target image allowed")
                  /\ pc' = "done"
                  /\ session_id' = sid
             ELSE /\ response' = response
                  /\ pc' = "init"
                  /\ session_id' = IF sid = None THEN "uuid4" ELSE sid
    /\ UNCHANGED <<idx, results, calls, selVars, fmVars, initVars, extVars, lamaVars>>

\* lines 524-537: models and reference image; a failure here is caught by the
\* outer handler (lines 632-636), whose detail is "Processing failed: " and
\* the message of the exception
InitRequest ==
    /\ pc = "init"
    /\ \E models_ok \in BOOLEAN :
          IF ~models_ok
          THEN /\ response' = HTTPException(500, ModelLoadError.msg)
               /\ pc' = "done"
               /\ UNCHANGED <<idx, results>>
          ELSE IF ~ReferenceLoads(reference)
          THEN /\ response' = HTTPException(500, DecodeError.msg)
               /\ pc' = "done"
               /\ UNCHANGED <<idx, results>>
          ELSE /\ results' = <<>>
               /\ idx' = 0
               /\ pc' = IF Len(targets) > 0 THEN "load_target" ELSE "finish"
               /\ response' = response
    /\ UNCHANGED <<reference, session_id, targets, calls, selVars, fmVars, initVars, extVars, lamaVars>>

\* lines 539-546: decode the target
LoadTarget ==
    /\ pc = "load_target"
    /\ IF targets[idx + 1].decodable
       THEN /\ pc' = "segment"
            /\ calls' = Append(calls, Call("load_image", idx, "ok", NoError, -1, {}, -1))
            /\ UNCHANGED <<idx, results, response>>
       ELSE /\ calls' = Append(calls, Call("load_image", idx, "raise", DecodeError, -1, {}, -1))
            /\ RecordImageError(DecodeError)
    /\ UNCHANGED <<reference, session_id, targets, selVars, fmVars, initVars, extVars, lamaVars>>

\* line 549: masks = segment_image(target_image, session); a mask file that
\* cv2.imwrite did not produce is left unreadable
Segment ==
    /\ pc = "segment"
    /\ \/ /\ calls' = Append(calls, Call("segment_image", idx, "raise", SegmentError, -1, {}, -1))
          /\ RecordImageError(SegmentError)
          /\ UNCHANGED <<masks, mask_files>>
       \/ \E cs \in SeqsUpTo(PipeCandidates, MaxMasks) :
             /\ masks' = [i \in DOMAIN cs |-> cs[i].data]
             /\ mask_files' = [i \in DOMAIN cs |-> cs[i].file]
             /\ calls' = Append(calls, Call("segment_image", idx, "ok", NoError, -1, {}, -1))
             /\ pc' = "find_face"
             /\ UNCHANGED <<idx, results, response>>
    /\ UNCHANGED <<reference, session_id, targets, face_bbox, selection, fmVars, initVars, extVars, lamaVars>>

\* lines 552-554: face_bbox = find_matching_face(target_image, ref_image)
FindFace ==
    /\ pc = "find_face"
    /\ \E q \in SeqsUpTo(PipeQueryFaces, MaxQueryFaces) :
       \E t \in SeqsUpTo(PipeTargetFaces, MaxTargetFaces) :
          LET out == FindMatchingFace([i \in DOMAIN t |-> Box(t[i])],
                                      [i \in DOMAIN t |-> t[i].enc], q)
          IN  /\ calls' = Append(calls, Call("find_matching_face", idx, out.kind,
                                             out.error, -1, {}, Len(q)))
              /\ IF out.kind = "raise"
                 THEN RecordImageError(out.error) /\ face_bbox' = face_bbox
                 ELSE IF out.kind = "None"
                 THEN RecordImageError(NoMatchingFaceError) /\ face_bbox' = out
                 ELSE /\ face_bbox' = out
                      /\ pc' = "select"
                      /\ UNCHANGED <<idx, results, response>>
    /\ UNCHANGED <<reference, session_id, targets, masks, mask_files, selection, fmVars, initVars, extVars, lamaVars>>

\* line 557: mask_idx = select_best_mask(masks, face_bbox, session)
SelectMask ==
    /\ pc = "select"
    /\ LET out == SelectBestMask(masks, mask_files, face_bbox)
       IN  /\ selection' = out
           /\ calls' = Append(calls, Call("select_best_mask", idx, out.kind,
                                          out.error, out.index, {}, -1))
           /\ IF out.kind = "raise"
              THEN RecordImageError(out.error)
              ELSE pc' = "inpaint" /\ UNCHANGED <<idx, results, response>>
    /\ UNCHANGED <<reference, session_id, targets, masks, mask_files, face_bbox, fmVars, initVars, extVars, lamaVars>>

\* lines 559-570: load the selected mask file and inpaint with it
Inpaint ==
    /\ pc = "inpaint"
    /\ LET mask_cv2 == mask_files[MaskPathIndex(selection.index) + 1]
       IN  IF ~mask_cv2.ok
           THEN /\ calls' = calls
                /\ RecordImageError(MaskLoadError)
                /\ UNCHANGED lamaVars
           ELSE \E env \in InpaintEnvs :
                   LET out == InpaintWithLama(env)
                   IN  /\ lama_env' = env
                       /\ lama' = out
                       /\ calls' = Append(calls, Call("inpaint_with_lama", idx, out.kind,
                                                      out.error, -1, mask_cv2.pix, -1))
                       /\ IF out.kind = "raise"
                          THEN RecordImageError(out.error)
                          ELSE pc' = "save" /\ UNCHANGED <<idx, results, response>>
    /\ UNCHANGED <<reference, session_id, targets, selVars, fmVars, initVars, extVars>>

\* lines 572-610: save and verify the output, commit, append the result
SaveOutput ==
    /\ pc = "save"
    /\ \/ /\ results' = Append(results, SuccessEntry(idx))
          /\ NextImage
          /\ UNCHANGED response
       \/ \E e \in SaveErrors : RecordImageError(e)
    /\ UNCHANGED <<reference, session_id, targets, calls, selVars, fmVars, initVars, extVars, lamaVars>>

\* lines 621-636: commit and answer; a failing commit reaches the outer handler
Finish ==
    /\ pc = "finish"
    /\ \E committed \in BOOLEAN :
          response' =
              IF committed
              THEN [status |-> 200, detail |-> "", session_id |-> session_id,
                    results |-> results,
                    processed |-> Cardinality({i \in 1 .. Len(results) :
                                                  "url" \in results[i].keys}),
                    failed |-> Cardinality({i \in 1 .. Len(results) :
                                               "error" \in results[i].keys})]
              ELSE HTTPException(500, CommitError.msg)
    /\ pc' = "done"
    /\ UNCHANGED <<reference, session_id, targets, idx, results, calls, selVars, fmVars, initVars, extVars,
                   lamaVars>>

Next ==
    \/ ReceiveRequest
    \/ InitRequest
    \/ LoadTarget
    \/ Segment
    \/ FindFace
    \/ SelectMask
    \/ Inpaint
    \/ SaveOutput
    \/ Finish

Spec == InitPipeline /\ [][Next]_vars

(***************************************************************************)
(* initialize_models (lines 141-162) and its callers as concurrent threads *)
(* of one process.  Each step is one bytecode-level access to the shared   *)
(* state; the lock is a threading.Lock.                                    *)
(***************************************************************************)
\* calls each thread makes
MaxCalls == 2

InitModels ==
    /\ PipelineIdle
    /\ MatchIdle
    /\ masks = <<>> /\ mask_files = <<>>
    /\ face_bbox = NoMatch
    /\ selection = NotCalled

\* variant: the lock is taken whether it is held or not
AcquireAlways(holder) == TRUE

\* threading.Lock: acquired only when no thread holds it
CanAcquire(holder) == holder = "None"

\* the call ends and hands v to the caller
Hand(t, v) ==
    /\ returned' = [returned EXCEPT ![t] = Append(@, v)]
    /\ th_pc' = [th_pc EXCEPT ![t] = "idle"]

\* a caller begins: segment_image first looks at sam_generator (line 189),
\* the others call initialize_models at once (lines 170 and 526)
BeginCall(t) ==
    /\ th_pc[t] = "idle"
    /\ started[t] < MaxCalls
    /\ started' = [started EXCEPT ![t] = @ + 1]
    /\ th_pc' = [th_pc EXCEPT ![t] = IF t = "segment_image" THEN "read_global"
                                     ELSE "acquire"]
    /\ UNCHANGED <<model_lock, models_loaded, sam_generator, loads, returned>>
    /\ UNCHANGED <<selVars, fmVars, requestVars, extVars>>

\* line 189: generator = sam_generator if sam_generator else initialize_models()
ReadGlobal(t) ==
    /\ th_pc[t] = "read_global"
    /\ IF sam_generator # NoGenerator
       THEN Hand(t, sam_generator)
       ELSE th_pc' = [th_pc EXCEPT ![t] = "acquire"] /\ UNCHANGED returned
    /\ UNCHANGED <<model_lock, models_loaded, sam_generator, loads, started>>
    /\ UNCHANGED <<selVars, fmVars, requestVars, extVars>>

\* line 151: with _model_lock
Acquire(t) ==
    /\ th_pc[t] = "acquire"
    /\ CanAcquire(model_lock)
    /\ model_lock' = t
    /\ th_pc' = [th_pc EXCEPT ![t] = "check"]
    /\ UNCHANGED <<models_loaded, sam_generator, loads, returned, started>>
    /\ UNCHANGED <<selVars, fmVars, requestVars, extVars>>

\* lines 152-153: if _models_loaded: return sam_generator (leaving the with
\* block releases the lock)
CheckLoaded(t) ==
    /\ th_pc[t] = "check"
    /\ IF models_loaded
       THEN Hand(t, sam_generator) /\ model_lock' = "None"
       ELSE th_pc' = [th_pc EXCEPT ![t] = "load"] /\ UNCHANGED <<returned, model_lock>>
    /\ UNCHANGED <<models_loaded, sam_generator, loads, started>>
    /\ UNCHANGED <<selVars, fmVars, requestVars, extVars>>

\* lines 155-157: the checkpoint is read and moved to the GPU, or that raises
\* and the with block releases the lock
LoadModel(t) ==
    /\ th_pc[t] = "load"
    /\ \/ /\ th_pc' = [th_pc EXCEPT ![t] = "make_generator"]
          /\ UNCHANGED model_lock
       \/ /\ th_pc' = [th_pc EXCEPT ![t] = "idle"]
          /\ model_lock' = "None"
    /\ UNCHANGED <<models_loaded, sam_generator, loads, returned, started>>
    /\ UNCHANGED <<selVars, fmVars, requestVars, extVars>>

\* line 158: sam_generator = SamAutomaticMaskGenerator(sam), a new object
MakeGenerator(t) ==
    /\ th_pc[t] = "make_generator"
    /\ loads' = loads + 1
    /\ sam_generator' = loads + 1
    /\ th_pc' = [th_pc EXCEPT ![t] = "set_loaded"]
    /\ UNCHANGED <<model_lock, models_loaded, returned, started>>
    /\ UNCHANGED <<selVars, fmVars, requestVars, extVars>>

\* line 161: _models_loaded = True
SetLoaded(t) ==
    /\ th_pc[t] = "set_loaded"
    /\ models_loaded' = TRUE
    /\ th_pc' = [th_pc EXCEPT ![t] = "return"]
    /\ UNCHANGED <<model_lock, sam_generator, loads, returned, started>>
    /\ UNCHANGED <<selVars, fmVars, requestVars, extVars>>

\* line 162: return sam_generator, and the lock is released
ReturnGenerator(t) ==
    /\ th_pc[t] = "return"
    /\ Hand(t, sam_generator)
    /\ model_lock' = "None"
    /\ UNCHANGED <<models_loaded, sam_generator, loads, started>>
    /\ UNCHANGED <<selVars, fmVars, requestVars, extVars>>

NextModels ==
    \E t \in Threads :
        \/ BeginCall(t)
        \/ ReadGlobal(t)
        \/ Acquire(t)
        \/ CheckLoaded(t)
        \/ LoadModel(t)
        \/ MakeGenerator(t)
        \/ SetLoaded(t)
        \/ ReturnGenerator(t)

SpecModels == InitModels /\ [][NextModels]_vars

(***************************************************************************)
(* Properties of select_best_mask, stated on the inputs and the outcome    *)
(* only.  Candidate indices are the Python ones, 0 .. len(masks) - 1.      *)
(***************************************************************************)
MaskIndices == 0 .. Len(masks) - 1
Loadable(i) == mask_files[i + 1].ok

\* mask-positive pixels of candidate i inside the face rectangle (a pixel of
\* the raster is inside the rectangle clamped to the raster iff it is inside
\* the rectangle)
FacePixels(i) ==
    {p \in mask_files[i + 1].pix :
        /\ face_bbox.left <= p[1] /\ p[1] < face_bbox.right
        /\ face_bbox.top <= p[2] /\ p[2] < face_bbox.bottom}

\* candidates with overlap_percentage >= 10
ReachesOverlap ==
    {i \in MaskIndices :
        /\ Loadable(i)
        /\ FaceArea(face_bbox) > 0
        /\ 100 * Cardinality(FacePixels(i)) >= 10 * FaceArea(face_bbox)}

\* candidates positive at the centre pixel of the face box
CentreHits ==
    {i \in MaskIndices :
        /\ Loadable(i)
        /\ <<(face_bbox.left + face_bbox.right) \div 2,
             (face_bbox.top + face_bbox.bottom) \div 2>> \in mask_files[i + 1].pix}

LargestIn(i, S) == i \in S /\ \A j \in S : masks[j + 1].area <= masks[i + 1].area

Returned == selection.kind = "index"
Raised == selection.kind = "raise"
Called == selection.kind # "pending"

C2_Tier2CentreFallback ==
    Called =>
        /\ selection.tier = 2 => ReachesOverlap = {}
        /\ (ReachesOverlap = {} /\ CentreHits # {})
              => (Returned /\ selection.tier = 2
                  /\ LargestIn(selection.index, CentreHits))

\* reached: a face box of positive area, two centre hits of different area
\* below 10% overlap, the larger one returned
C2_Witness ==
    /\ Returned /\ selection.tier = 2 /\ FaceArea(face_bbox) > 0
    /\ CentreHits = {0, 1}
    /\ masks[1].area < masks[2].area
    /\ selection.index = 1

\* C3: select_best_mask raises ValueError "No masks overlap with the detected
\* face" exactly when no mask qualifies under either tier, for every number of
\* candidates; it returns an index exactly when some mask qualifies.
C3_RaisesIffNoQualifier ==
    Called =>
        /\ Raised <=> (ReachesOverlap = {} /\ CentreHits = {})
        /\ Raised => (selection.error = NoOverlapError /\ selection.index = -1)
        /\ Returned <=> ~Raised
        /\ Returned => selection.index \in ReachesOverlap \cup CentreHits

\* reached: two loadable candidates, a face box of positive area, no qualifier
C3_Witness ==
    /\ Raised /\ Len(masks) = 2 /\ Loadable(0) /\ Loadable(1)
    /\ FaceArea(face_bbox) > 0

\* the face box has right <= left or bottom <= top
Degenerate == face_bbox.right <= face_bbox.left \/ face_bbox.bottom <= face_bbox.top

\* the candidate of least index among those of maximal area in S
FirstLargestIn(i, S) ==
    /\ LargestIn(i, S)
    /\ \A j \in S : masks[j + 1].area = masks[i + 1].area => i <= j

\* C17: with a face box of right <= left or bottom <= top, select_best_mask
\* raises no arithmetic error, the first loop admits no candidate, and the
\* outcome is the one of the centre-pixel test: the largest centre hit, or the
\* "No masks overlap" error when there is none.
C17_DegenerateBoxFallsToTier2 ==
    (Called /\ Degenerate) =>
        /\ selection.error.exc # "ZeroDivisionError"
        /\ selection.tier = 2
        /\ ReachesOverlap = {}
        /\ IF CentreHits # {}
           THEN Returned /\ LargestIn(selection.index, CentreHits)
           ELSE Raised /\ selection.error = NoOverlapError

\* reached: a box of zero area (right = left) whose centre pixel lies in a
\* readable mask, which is returned
C17_Witness ==
    /\ Returned /\ FaceArea(face_bbox) = 0 /\ face_bbox.right = face_bbox.left
    /\ Len(masks) = 2 /\ Loadable(0) /\ Loadable(1)
    /\ CentreHits # {}

\* C18: in either tier, among the qualifying masks of maximal area the one of
\* least index is returned.
C18_FirstOfTiedAreasReturned ==
    Returned =>
        /\ selection.tier = 1 => FirstLargestIn(selection.index, ReachesOverlap)
        /\ selection.tier = 2 => FirstLargestIn(selection.index, CentreHits)

\* reached: two masks of the same area that both qualify in the first loop,
\* the first returned
C18_Witness ==
    /\ Returned /\ selection.tier = 1 /\ Len(masks) = 2
    /\ ReachesOverlap = {0, 1}
    /\ masks[1].area = masks[2].area
    /\ masks[1].segmentation # masks[2].segmentation
    /\ selection.index = 0

\* the candidates whose raster can be read, in input order, by Python index
RECURSIVE ReadableUpTo(_)
ReadableUpTo(n) ==
    IF n = 0 THEN <<>>
    ELSE IF mask_files[n].ok THEN Append(ReadableUpTo(n - 1), n - 1)
    ELSE ReadableUpTo(n - 1)

Readable == ReadableUpTo(Len(masks))

\* the selection run on the readable candidates alone
OnReadable ==
    SelectBestMask([k \in DOMAIN Readable |-> masks[Readable[k] + 1]],
                   [k \in DOMAIN Readable |-> mask_files[Readable[k] + 1]],
                   face_bbox)

\* C19: a candidate whose raster cannot be read is never selected and raises
\* nothing; the outcome is that of the selection run on the readable
\* candidates alone, the returned index being the original one.
C19_UnreadableRasterSkipped ==
    Called =>
        /\ Returned => Loadable(selection.index)
        /\ Raised => selection.error = NoOverlapError
        /\ selection.kind = OnReadable.kind
        /\ selection.tier = OnReadable.tier
        /\ Returned => selection.index = Readable[OnReadable.index + 1]

\* reached: the first candidate unreadable, the second returned under its
\* original index 1
C19_Witness ==
    /\ Returned /\ Len(masks) = 2
    /\ ~Loadable(0) /\ Loadable(1)
    /\ selection.index = 1

(***************************************************************************)
(* Properties of find_matching_face                                        *)
(***************************************************************************)
BoxArea(loc) == (loc.bottom - loc.top) * (loc.right - loc.left)

\* positions (1-based) of the target faces within the threshold of the
\* reference encoding in use
UnderThreshold ==
    {i \in 1 .. Len(target_locations) :
        Distance(target_encodings[i], query_encoding) <= 6}

FirstUnder == CHOOSE i \in UnderThreshold : \A j \in UnderThreshold : i <= j

C5_Step ==
    /\ (fm_pc = "use_largest" /\ fm_pc' = "detect_target") =>
          \E i \in 1 .. Len(query_locations) :
              /\ \A j \in 1 .. Len(query_locations) :
                    BoxArea(query_locations[j]) <= BoxArea(query_locations[i])
              /\ query_locations' = <<query_locations[i]>>
              /\ query_encoding' = query_locations[i].enc
    /\ fm_pc \in {"detect_target", "compare"} => query_encoding' = query_encoding
    /\ (fm_pc = "compare" /\ fm_pc' = "done" /\ match'.kind = "face") =>
          \E i \in 1 .. Len(target_locations) :
              /\ Box(match') = target_locations[i]
              /\ match'.distance = Distance(target_encodings[i], query_locations[1].enc)

C5_EncodingOfLargestFace == [][C5_Step]_vars

\* reached: two reference faces of different area, the second one larger and
\* chosen, and a target face matched against it
C5_Witness ==
    /\ fm_pc = "done" /\ Len(face_areas) = 2
    /\ face_areas[1][1] > face_areas[2][1]
    /\ largest_idx = 1
    /\ match.kind = "face"

\* positions (0-based) of the reference faces of largest area, before line 255
LargestFaces ==
    {i \in 0 .. Len(query_locations) - 1 :
        \A j \in 1 .. Len(query_locations) :
            BoxArea(query_locations[j]) <= BoxArea(query_locations[i + 1])}

\* C6 as stated: among reference faces tied for the largest area, the one that
\* comes first in detector order is selected.
C6_FirstTiedFaceSelected ==
    [][(fm_pc = "use_largest" /\ Len(query_locations) > 1) =>
          /\ largest_idx' \in LargestFaces
          /\ \A i \in LargestFaces : largest_idx' <= i]_vars

\* C6 amended: among reference faces tied for the largest area, the one that
\* comes last in detector order is selected (the sort is on (area, idx)
\* tuples, descending).
C6_LastTiedFaceSelected ==
    [][(fm_pc = "use_largest" /\ Len(query_locations) > 1) =>
          /\ largest_idx' \in LargestFaces
          /\ \A i \in LargestFaces : largest_idx' >= i
          /\ query_locations' = <<query_locations[largest_idx' + 1]>>]_vars

\* reached: two reference faces of equal area, the second one chosen
C6_Witness ==
    /\ fm_pc = "detect_target" /\ Len(face_areas) = 2
    /\ face_areas[1][1] = face_areas[2][1]
    /\ largest_idx = 1

\* C8: with at least one face in the reference image and no target face within
\* 0.6 (a target without faces included), find_matching_face returns None and
\* raises nothing.
C8_NoMatchIsNone ==
    /\ (fm_pc = "raised" \/ match.kind = "raise") => Len(query_locations) = 0
    /\ (fm_pc = "done" /\ UnderThreshold = {}) => match = NoMatch

\* reached: a target with two faces, both farther than 0.6, and the outcome None
C8_Witness ==
    /\ fm_pc = "done" /\ Len(target_locations) = 2 /\ UnderThreshold = {}
    /\ Len(query_locations) > 0
    /\ match = NoMatch

(***************************************************************************)
(* Properties of process_images, checked under Spec.  calls is the history *)
(* of the stage calls of the request, in the order they were made.         *)
(***************************************************************************)
CallsOf(stage, i) == {k \in DOMAIN calls : calls[k].stage = stage /\ calls[k].idx = i}

\* the entries of results filed for target i
EntriesOf(i) == {k \in DOMAIN results : results[k].original = i}

\* C7: when no face is detected in the reference image, find_matching_face
\* raises the "No faces found in query image" error, which is neither the None
\* result nor the "No matching face found" error, and for that target neither
\* select_best_mask nor inpaint_with_lama is called; the error is what the
\* target's entry reports.
C7_NoReferenceFaceBlocksPair ==
    \A k \in DOMAIN calls :
        (calls[k].stage = "find_matching_face" /\ calls[k].nquery = 0) =>
            /\ calls[k].out = "raise"
            /\ calls[k].error.msg = "No faces found in query image"
            /\ calls[k].error.msg # "No matching face found"
            /\ CallsOf("select_best_mask", calls[k].idx) = {}
            /\ CallsOf("inpaint_with_lama", calls[k].idx) = {}
            /\ \E r \in EntriesOf(calls[k].idx) :
                  results[r].error = "No faces found in query image"

\* reached: a request answered after find_matching_face was called on a
\* reference without faces, the target having been segmented into two masks
C7_Witness ==
    /\ pc = "done" /\ response.status = 200 /\ response.failed = 1
    /\ Len(masks) = 2
    /\ \E k \in DOMAIN calls :
          calls[k].stage = "find_matching_face" /\ calls[k].nquery = 0

\* a call that did not hand a usable value to the next stage
Failed(k) ==
    \/ calls[k].out = "raise"
    \/ calls[k].stage = "find_matching_face" /\ calls[k].out = "None"

\* C9 as stated: every request that is not stopped by a request-level failure
\* is answered with one entry per submitted target, whatever their number.
C9_EveryTargetReported ==
    (pc = "done" /\ response.status # 500) =>
        /\ response.status = 200
        /\ Len(response.results) = Len(targets)

\* C9 amended: a request with more than one target is refused with status 400
\* before any target is touched; in an accepted request a stage failure for
\* target i is caught, filed as the error entry of target i, and the request is
\* still answered with one entry per target, successes and failures counted.
C9_AcceptedTargetsReported ==
    /\ (pc # "idle" /\ Len(targets) > 1) =>
          /\ pc = "done" /\ response.status = 400
          /\ calls = <<>> /\ results = <<>> /\ response.results = <<>>
    /\ \A k \in DOMAIN calls :
          Failed(k) =>
              \E r \in EntriesOf(calls[k].idx) :
                  /\ results[r].keys = {"original", "error"}
                  /\ results[r].error # ""
    /\ (pc = "done" /\ Len(targets) <= 1 /\ response.status # 500) =>
          /\ response.status = 200
          /\ response.results = results
          /\ Len(results) = Len(targets)
          /\ \A i \in 0 .. Len(targets) - 1 : Cardinality(EntriesOf(i)) = 1
          /\ response.processed + response.failed = Len(targets)

\* reached: an accepted request whose target had no face matching the
\* reference, answered with status 200 and the error entry of that target
C9_Witness ==
    /\ pc = "done" /\ response.status = 200
    /\ Len(targets) = 1 /\ Len(response.results) = 1
    /\ response.results[1].error = "No matching face found"
    /\ response.failed = 1 /\ response.processed = 0
    /\ \E k \in DOMAIN calls :
          calls[k].stage = "find_matching_face" /\ calls[k].out = "None"

\* C10: select_best_mask is called for a target only after segment_image and
\* then find_matching_face returned for that target, the latter with a face;
\* inpaint_with_lama is called only after select_best_mask returned an index
\* for that target, and with the segmentation of the mask at that index.
C10_StagesInOrder ==
    \A k \in DOMAIN calls :
        /\ calls[k].stage = "select_best_mask" =>
              \E i \in 1 .. k - 1 : \E j \in i + 1 .. k - 1 :
                  /\ calls[i].stage = "segment_image" /\ calls[i].out = "ok"
                  /\ calls[j].stage = "find_matching_face" /\ calls[j].out = "face"
                  /\ calls[i].idx = calls[k].idx /\ calls[j].idx = calls[k].idx
        /\ calls[k].stage = "inpaint_with_lama" =>
              \E j \in 1 .. k - 1 :
                  /\ calls[j].stage = "select_best_mask" /\ calls[j].out = "index"
                  /\ calls[j].idx = calls[k].idx
                  /\ calls[j].index \in 0 .. Len(masks) - 1
                  /\ calls[k].mask = masks[calls[j].index + 1].segmentation

\* reached: inpainting done with the second of two different masks
C10_Witness ==
    /\ pc = "save" /\ Len(masks) = 2
    /\ masks[1].segmentation # masks[2].segmentation
    /\ selection.index = 1
    /\ calls[Len(calls)].stage = "inpaint_with_lama"
    /\ calls[Len(calls)].out = "image"
    /\ calls[Len(calls)].mask = masks[2].segmentation

\* the stages of the loop body that are logged in calls
Stages == {"load_image", "segment_image", "find_matching_face",
           "select_best_mask", "inpaint_with_lama"}

\* C11: for each target every stage is called at most once, the inpainting
\* subprocess is run at most once, and no stage is called for a target after a
\* stage failed for it.
C11_NoStageRetried ==
    /\ \A k \in DOMAIN calls : \A j \in DOMAIN calls :
          (calls[k].stage = calls[j].stage /\ calls[k].idx = calls[j].idx) => k = j
    /\ \A k \in DOMAIN calls :
          Failed(k) => \A j \in k + 1 .. Len(calls) : calls[j].idx # calls[k].idx
    /\ lama.runs <= 1

\* reached: the subprocess exits with status 1 after all four stages were
\* called; it was run once and the request is answered
C11_Witness ==
    /\ pc = "done" /\ Len(calls) = 5
    /\ lama.kind = "raise" /\ lama_env.returncode = 1 /\ lama.runs = 1
    /\ calls[5].stage = "inpaint_with_lama" /\ calls[5].out = "raise"

\* C12 as stated: a reference without a face or an upload that cannot be
\* decoded is filed as the target's error entry and is never what fails the
\* whole request.
C12_ValidationFailuresPerImage ==
    /\ response.status = 500 =>
          response.detail \notin {DecodeError.msg, NoQueryFaceError.msg}
    /\ \A k \in DOMAIN calls :
          (calls[k].stage = "load_image" /\ calls[k].out = "raise") =>
              \E r \in EntriesOf(calls[k].idx) : results[r].error = DecodeError.msg

\* C12 amended: a target upload that cannot be decoded, and a reference in
\* which no face is detected, are filed as the target's error entry; a
\* reference upload that cannot be decoded fails the whole request with status
\* 500 before any target is touched.
C12_TargetValidationPerImage ==
    /\ \A k \in DOMAIN calls :
          /\ (calls[k].stage = "load_image" /\ calls[k].out = "raise") =>
                \E r \in EntriesOf(calls[k].idx) :
                    /\ results[r].error = DecodeError.msg
                    /\ results[r].keys = {"original", "error"}
          /\ (calls[k].stage = "find_matching_face" /\ calls[k].nquery = 0) =>
                \E r \in EntriesOf(calls[k].idx) :
                    /\ results[r].error = NoQueryFaceError.msg
                    /\ results[r].keys = {"original", "error"}
    /\ (pc \notin {"idle", "init"} /\ Len(targets) <= 1 /\ ~reference.decodable) =>
          /\ pc = "done" /\ response.status = 500
          /\ calls = <<>> /\ results = <<>>
    /\ (response.status = 500 /\ response.detail = DecodeError.msg) =>
          ~reference.decodable

\* reached: a request whose target cannot be decoded, answered with status 200
\* and the decode error as the target's entry
C12_Witness ==
    /\ pc = "done" /\ response.status = 200
    /\ Len(targets) = 1 /\ ~targets[1].decodable /\ reference.decodable
    /\ Len(response.results) = 1
    /\ response.results[1].error = DecodeError.msg

\* the messages of the failures of the session directory and the saved output
IOMessages == {e.msg : e \in SaveErrors \cup {SegmentError}}

\* C13 as stated: a failure of the session mask directory or of the saved
\* output is never filed as a target's error entry.
C13_IOFailuresNeverPerImage ==
    \A r \in DOMAIN results : results[r].error \notin IOMessages

\* C13 amended: a failure of the session mask directory or of the saved output
\* (missing, empty, corrupt) while a target is processed is filed as that
\* target's error entry and the request is answered normally; status 500 is
\* given only for failures outside the loop over the targets (model loading,
\* the reference upload, the final volume commit).
C13_IOFailuresRecordedPerImage ==
    /\ \A k \in DOMAIN calls :
          (calls[k].stage = "segment_image" /\ calls[k].out = "raise") =>
              \E r \in EntriesOf(calls[k].idx) : results[r].error = SegmentError.msg
    /\ response.status = 500 =>
          /\ response.detail \in {ModelLoadError.msg, DecodeError.msg, CommitError.msg}
          /\ response.detail = DecodeError.msg => ~reference.decodable
    /\ (pc = "done" /\ response.status = 200) =>
          /\ response.results = results
          /\ \A r \in DOMAIN results :
                results[r].error \in IOMessages => results[r].keys = {"original", "error"}

\* reached: the saved output is empty, the request is answered with status 200
\* and that failure as the target's entry
C13_Witness ==
    /\ pc = "done" /\ response.status = 200 /\ Len(response.results) = 1
    /\ response.results[1].error = "Output file is empty"
    /\ lama.kind = "image"

\* the subprocess was run and exited with status 0
ExitedZero == lama.kind # "pending" /\ lama_env.mask_written /\ lama_env.returncode = 0

\* C14: after exit status 0, image_mask001.png is tested first and loaded when
\* it exists, image.png is tested and loaded only when image_mask001.png does
\* not exist, and with neither the call raises "LaMa output not found".
C14_OutputProbedInOrder ==
    ExitedZero =>
        /\ "image_mask001.png" \in lama_env.outputs =>
              /\ lama.probed = <<"image_mask001.png">>
              /\ lama.kind = "image" => lama.result_path = "image_mask001.png"
              /\ lama.kind = "raise" => lama.error = InvalidImageError
        /\ ("image_mask001.png" \notin lama_env.outputs /\ "image.png" \in lama_env.outputs) =>
              /\ lama.probed = <<"image_mask001.png", "image.png">>
              /\ lama.kind = "image" => lama.result_path = "image.png"
              /\ lama.kind = "raise" => lama.error = InvalidImageError
        /\ lama_env.outputs = {} =>
              /\ lama.probed = <<"image_mask001.png", "image.png">>
              /\ lama.kind = "raise" /\ lama.error = LamaOutputMissingError
        /\ lama.kind = "image" <=> (lama_env.outputs # {} /\ lama_env.valid)

\* reached: both files exist after exit status 0 and image_mask001.png is loaded
C14_Witness ==
    /\ pc = "save" /\ ExitedZero
    /\ lama_env.outputs = {"image_mask001.png", "image.png"}
    /\ lama.kind = "image" /\ lama.result_path = "image_mask001.png"

\* C15: a nonzero exit status raises without testing or loading any output
\* file; that failure and the one of a missing output are filed as the
\* target's error entry with a message other than that of the "No masks
\* overlap" failure of select_best_mask.
C15_ProcessFailurePerImage ==
    /\ (lama.kind # "pending" /\ lama_env.mask_written /\ lama_env.returncode # 0) =>
          /\ lama.kind = "raise" /\ lama.error = LamaFailedError
          /\ lama.probed = <<>> /\ lama.result_path = ""
    /\ \A k \in DOMAIN calls :
          /\ (calls[k].stage = "inpaint_with_lama"
              /\ calls[k].error \in {LamaFailedError, LamaOutputMissingError}) =>
                \E r \in EntriesOf(calls[k].idx) :
                    /\ results[r].error = calls[k].error.msg
                    /\ results[r].error # NoOverlapError.msg
          /\ (calls[k].stage = "select_best_mask" /\ calls[k].out = "raise") =>
                \E r \in EntriesOf(calls[k].idx) :
                    results[r].error = NoOverlapError.msg

\* reached: exit status 1 with both output files present, answered with status
\* 200 and the failure as the target's entry
C15_Witness ==
    /\ pc = "done" /\ response.status = 200
    /\ lama_env.mask_written /\ lama_env.returncode = 1
    /\ lama_env.outputs = {"image_mask001.png", "image.png"}
    /\ Len(response.results) = 1
    /\ response.results[1].error = LamaFailedError.msg

\* C16: an answer of status 200 carries the session identifier, one entry per
\* target in input order, each entry with either output and url or error and
\* never both, and processed + failed = number of targets.
C16_ResponseShape ==
    (pc = "done" /\ response.status = 200) =>
        /\ response.session_id = session_id
        /\ response.session_id \notin {"", None}
        /\ Len(response.results) = Len(targets)
        /\ \A i \in DOMAIN response.results :
              LET r == response.results[i]
              IN  /\ r.original = i - 1
                  /\ \/ r.keys = {"original", "output", "url"}
                     \/ r.keys = {"original", "error"}
                  /\ "url" \in r.keys => (r.output # "" /\ r.url # "")
        /\ response.processed =
              Cardinality({i \in DOMAIN response.results :
                              response.results[i].keys = {"original", "output", "url"}})
        /\ response.processed + response.failed = Len(targets)

\* reached: a request without session_id whose target was inpainted and saved
C16_Witness ==
    /\ pc = "done" /\ response.status = 200
    /\ response.session_id = "uuid4"
    /\ response.processed = 1 /\ response.failed = 0
    /\ response.results[1].url # ""

(***************************************************************************)
(* Properties of initialize_models, checked under SpecModels               *)
(***************************************************************************)
\* the lines of initialize_models inside the with block
InsideLock == {"check", "load", "make_generator", "set_loaded", "return"}

\* C20: whatever the interleaving of the callers, at most one load of the SAM
\* model completes, at most one thread is inside the locked block, once
\* _models_loaded is set the generator of that load is the one in place, and
\* every value a caller is handed is that generator, never None and never
\* before the load that made it.
C20_SingleLoadUnderLock ==
    /\ loads <= 1
    /\ \A t \in Threads : th_pc[t] \in InsideLock => model_lock = t
    /\ \A t, u \in Threads :
          (th_pc[t] \in InsideLock /\ th_pc[u] \in InsideLock) => t = u
    /\ models_loaded => (loads = 1 /\ sam_generator = 1)
    /\ \A t \in Threads : \A k \in DOMAIN returned[t] :
          /\ returned[t][k] # NoGenerator
          /\ returned[t][k] = sam_generator
          /\ loads = 1

\* reached: segment_image is handed the generator while the loading thread has
\* not yet set _models_loaded, and process_images waits for the lock
C20_Witness ==
    /\ Len(returned["segment_image"]) = 1
    /\ th_pc["startup_event"] = "set_loaded" /\ ~models_loaded
    /\ th_pc["process_images"] = "acquire"
    /\ loads = 1

\* C22: a request with more than one target is answered with status 400 and
\* the detail of the limit at once: the session id is the one the caller
\* passed (none is generated), the step that initializes the models and loads
\* the reference is never enabled, no stage is called, no result is filed, and
\* no mask or inpainting file is written.
C22_TooManyTargetsRejectedFirst ==
    (pc # "idle" /\ Len(targets) > 1) =>
        /\ pc = "done"
        /\ response = HTTPException(400, "Maximum 1 target image allowed")
        /\ session_id # "uuid4"
        /\ ~ENABLED InitRequest
        /\ ModelsNotLoaded
        /\ calls = <<>> /\ results = <<>>
        /\ masks = <<>> /\ mask_files = <<>>
        /\ lama.kind = "pending" /\ lama.runs = 0
        /\ ~lama_env.mask_written

\* reached: a request with three targets and no session id, refused
C22_Witness ==
    /\ pc = "done"
    /\ Len(targets) = 3
    /\ session_id = None
    /\ response.status = 400
    /\ calls = <<>>

(***************************************************************************)
(* past_messages/main.py: download_html (lines 337-383)                    *)
(*                                                                         *)
(* SpecDownload runs one request.  The committed volume is the             *)
(* environment's: the file may appear in it or leave it at any time; the   *)
(* container sees it through its local view, refreshed by reload().        *)
(***************************************************************************)
\* GENERATED_DIR = Path("/app/generated") (line 87), as its components
GENERATED_DIR == <<"app", "generated">>

\* Path.resolve() on components: ".." steps to the parent, "/.." is "/"
RECURSIVE ResolveFrom(_, _)
ResolveFrom(done, rest) ==
    IF rest = <<>> THEN done
    ELSE IF Head(rest) = ".."
    THEN ResolveFrom(IF done = <<>> THEN <<>> ELSE SubSeq(done, 1, Len(done) - 1),
                     Tail(rest))
    ELSE ResolveFrom(Append(done, Head(rest)), Tail(rest))

Resolve(path) == ResolveFrom(<<>>, path)

\* Path.is_relative_to: base is a leading part of path, component by component
IsRelativeTo(path, base) ==
    /\ Len(base) <= Len(path)
    /\ SubSeq(path, 1, Len(base)) = base

\* the names a caller asks for
DownloadNames == {<<"a.html">>, <<"..", "a.html">>, <<"..", "generated", "a.html">>,
                  <<"..", "..", "etc">>}

\* max_retries = 3 (line 349)
max_retries == 3

\* a wait after every attempt
AlwaysWait(a) == TRUE

\* line 372: if attempt < max_retries - 1
ShouldWait(a) == a < max_retries - 1

AccessDenied == Answer(403, "Access denied")
FileNotFound == Answer(404, "File not found on server after 3 attempts")
FileResponse == Answer(200, "")

LogEntry(a, event, value) == [attempt |-> a, event |-> event, value |-> value]

InitDownload ==
    /\ dl_pc = "idle"
    /\ filename = <<>>
    /\ attempt = 0
    /\ volume_file \in BOOLEAN
    /\ local_file \in BOOLEAN
    /\ dl_log = <<>>
    /\ dl_response = NoAnswer
    /\ GenerateIdle
    /\ SessionIdle
    /\ ChatIdle
    /\ BoothIdle
    /\ CompositeIdle
    /\ RunsIdle
    /\ RequestIdle
    /\ MatchIdle
    /\ masks = <<>> /\ mask_files = <<>>
    /\ face_bbox = NoMatch
    /\ selection = NotCalled

\* lines 343-350: the traversal check, then the loop is entered
DownloadRequest ==
    /\ dl_pc = "idle"
    /\ \E f \in DownloadNames :
          /\ filename' = f
          /\ IF ~IsRelativeTo(Resolve(GENERATED_DIR \o f), Resolve(GENERATED_DIR))
             THEN dl_pc' = "done" /\ dl_response' = AccessDenied
             ELSE dl_pc' = "reload" /\ dl_response' = dl_response
    /\ attempt' = 0
    /\ UNCHANGED <<volume_file, local_file, dl_log, imageVars, gcVars, ssVars, chatVars, boothVars, compositeVars, runVars>>

\* lines 354-358: generated_volume.reload(); a failure is caught and logged
Reload ==
    /\ dl_pc = "reload"
    /\ \E ok \in BOOLEAN :
          /\ local_file' = IF ok THEN volume_file ELSE local_file
          /\ dl_log' = Append(dl_log, LogEntry(attempt, "reload", ok))
    /\ dl_pc' = "check"
    /\ UNCHANGED <<filename, attempt, volume_file, dl_response, imageVars, gcVars, ssVars, chatVars, boothVars, compositeVars, runVars>>

\* "for attempt in range(max_retries)" steps on, or the loop ends (lines 376-383)
NextAttempt ==
    /\ attempt' = attempt + 1
    /\ IF attempt + 1 < max_retries
       THEN dl_pc' = "reload" /\ dl_response' = dl_response
       ELSE dl_pc' = "done" /\ dl_response' = FileNotFound

\* lines 360-374: the existence check of the attempt
CheckExists ==
    /\ dl_pc = "check"
    /\ dl_log' = Append(dl_log, LogEntry(attempt, "exists", local_file))
    /\ IF local_file
       THEN dl_pc' = "done" /\ dl_response' = FileResponse /\ attempt' = attempt
       ELSE IF ShouldWait(attempt)
       THEN dl_pc' = "sleep" /\ UNCHANGED <<attempt, dl_response>>
       ELSE NextAttempt
    /\ UNCHANGED <<filename, volume_file, local_file, imageVars, gcVars, ssVars, chatVars, boothVars, compositeVars, runVars>>

\* line 374: time.sleep(2)
Sleep ==
    /\ dl_pc = "sleep"
    /\ dl_log' = Append(dl_log, LogEntry(attempt, "sleep", TRUE))
    /\ NextAttempt
    /\ UNCHANGED <<filename, volume_file, local_file, imageVars, gcVars, ssVars, chatVars, boothVars, compositeVars, runVars>>

\* the environment: another writer commits the file to the volume, or removes it
VolumeChanges ==
    /\ volume_file' = ~volume_file
    /\ UNCHANGED <<dl_pc, filename, attempt, local_file, dl_log, dl_response, imageVars, gcVars, ssVars, chatVars, boothVars, compositeVars, runVars>>

NextDownload ==
    \/ DownloadRequest
    \/ Reload
    \/ CheckExists
    \/ Sleep
    \/ VolumeChanges

SpecDownload == InitDownload /\ [][NextDownload]_vars

\* the positions of the log holding the given event
EventsOf(event) == {i \in DOMAIN dl_log : dl_log[i].event = event}

MaxParticipants == 2

NoneValue == [type |-> "None"]

\* a dict: whether it has the keys "messages", "participants" and "format",
\* and the length of its list of participants
Dict(has_keys, participants, origin) ==
    [type |-> "object", has_keys |-> has_keys, participants |-> participants,
     origin |-> origin]

\* the session file: missing, or what upload_messages saved (lines 219-224),
\* the parser's result
NoSessionFile == [exists |-> FALSE, data |-> NoneValue]
SessionFiles ==
    {NoSessionFile}
        \cup {[exists |-> TRUE, data |-> Dict(TRUE, n, "store")] : n \in 0 .. MaxParticipants}

\* request bodies: none, bytes that are not JSON, and JSON texts
JsonValues ==
    {NoneValue, [type |-> "list"]}
        \cup {Dict(k, n, "body") : k \in BOOLEAN, n \in 0 .. MaxParticipants}
Bodies ==
    {[kind |-> "empty"], [kind |-> "not_json"]}
        \cup {[kind |-> "json", value |-> v] : v \in JsonValues}

\* load_session (lines 138-167): None when the file is missing, else its data;
\* a failure of reload() is caught and the local file is read all the same
load_session(file) == IF ~file.exists THEN NoneValue ELSE file.data

\* json.loads(body) returned as it is
ParsedBodyUnlogged(b) ==
    IF b.kind = "not_json"
    THEN [raised |-> TRUE, value |-> NoneValue]
    ELSE [raised |-> FALSE, value |-> b.value]

\* lines 264-266: json.loads(body), then result.get('message_count') for the
\* log line, which raises AttributeError on anything but a dict
ParsedBody(b) ==
    IF b.kind = "not_json" \/ b.value.type # "object"
    THEN [raised |-> TRUE, value |-> NoneValue]
    ELSE [raised |-> FALSE, value |-> b.value]

TooFewParticipants == Answer(400, "Need at least 2 participants for continuation")
SessionNotFound == Answer(404, "Session not found. Please upload the file again.")

\* lines 333-335: except Exception as e, answered with str(e) in the detail;
\* str() of an HTTPException is its status code and its detail
GenerationFailed(msg) == Answer(500, "Error generating continuation: " \o msg)

InitGenerate ==
    /\ gc_pc = "idle"
    /\ body = [kind |-> "empty"]
    /\ session_store \in SessionFiles
    /\ result = NoneValue
    /\ gc_log = <<>>
    /\ gc_response = NoAnswer
    /\ DownloadIdle
    /\ SessionIdle
    /\ ChatIdle
    /\ BoothIdle
    /\ CompositeIdle
    /\ RunsIdle
    /\ RequestIdle
    /\ MatchIdle
    /\ masks = <<>> /\ mask_files = <<>>
    /\ face_bbox = NoMatch
    /\ selection = NotCalled

\* line 263: body = await request.body()
GenerateRequest ==
    /\ gc_pc = "idle"
    /\ body' \in Bodies
    /\ gc_pc' = "read"
    /\ UNCHANGED <<session_store, result, gc_log, gc_response, imageVars, dlVars, ssVars, chatVars, boothVars, compositeVars, runVars>>

\* lines 262-273: the body's data, else the stored session
ReadBody ==
    /\ gc_pc = "read"
    /\ IF body.kind = "empty" \/ ParsedBody(body).raised
       THEN /\ result' = load_session(session_store)
            /\ gc_log' = Append(gc_log, "load_session")
       ELSE /\ result' = ParsedBody(body).value
            /\ gc_log' = gc_log
    /\ gc_pc' = "check"
    /\ UNCHANGED <<body, session_store, gc_response, imageVars, dlVars, ssVars, chatVars, boothVars, compositeVars, runVars>>

\* lines 275-277
CheckResult ==
    /\ gc_pc = "check"
    /\ IF result = NoneValue
       THEN gc_pc' = "done" /\ gc_response' = SessionNotFound
       ELSE gc_pc' = "validate" /\ gc_response' = gc_response
    /\ UNCHANGED <<body, session_store, result, gc_log, imageVars, dlVars, ssVars, chatVars, boothVars, compositeVars, runVars>>

\* lines 279-288, inside the try of line 279: a missing key raises KeyError,
\* fewer than 2 participants raise HTTPException(400); both reach the handler
\* of line 333
Validate ==
    /\ gc_pc = "validate"
    /\ IF ~result.has_keys
       THEN gc_pc' = "done" /\ gc_response' = GenerationFailed("'messages'")
       ELSE IF result.participants < 2
       THEN /\ gc_pc' = "done"
            /\ gc_response' = GenerationFailed("400: " \o TooFewParticipants.detail)
       ELSE gc_pc' = "chat" /\ gc_response' = gc_response
    /\ UNCHANGED <<body, session_store, result, gc_log, imageVars, dlVars, ssVars, chatVars, boothVars, compositeVars, runVars>>

\* lines 290-310: the chat API call and the parsing of its answer
CallChat ==
    /\ gc_pc = "chat"
    /\ gc_log' = Append(gc_log, "chat_api")
    /\ \E ok \in BOOLEAN :
          IF ok THEN gc_pc' = "write" /\ gc_response' = gc_response
          ELSE gc_pc' = "done" /\ gc_response' = GenerationFailed("API error")
    /\ UNCHANGED <<body, session_store, result, imageVars, dlVars, ssVars, chatVars, boothVars, compositeVars, runVars>>

\* lines 312-319: the HTML file
WriteHtml ==
    /\ gc_pc = "write"
    /\ \E ok \in BOOLEAN :
          IF ok THEN /\ gc_log' = Append(gc_log, "write_html")
                     /\ gc_pc' = "commit" /\ gc_response' = gc_response
          ELSE /\ gc_log' = gc_log
               /\ gc_pc' = "done" /\ gc_response' = GenerationFailed("write error")
    /\ UNCHANGED <<body, session_store, result, imageVars, dlVars, ssVars, chatVars, boothVars, compositeVars, runVars>>

\* lines 321-330: generated_volume.commit() and the answer
CommitHtml ==
    /\ gc_pc = "commit"
    /\ gc_log' = Append(gc_log, "commit")
    /\ \E ok \in BOOLEAN :
          gc_response' = IF ok THEN Answer(200, "") ELSE GenerationFailed("commit error")
    /\ gc_pc' = "done"
    /\ UNCHANGED <<body, session_store, result, imageVars, dlVars, ssVars, chatVars, boothVars, compositeVars, runVars>>

NextGenerate ==
    \/ GenerateRequest
    \/ ReadBody
    \/ CheckResult
    \/ Validate
    \/ CallChat
    \/ WriteHtml
    \/ CommitHtml

SpecGenerate == InitGenerate /\ [][NextGenerate]_vars

\* the request body provides session data: it is the text of a JSON object
BodyProvides == body.kind = "json" /\ body.value.type = "object"

C25_TooFewParticipantsIs400 ==
    (/\ gc_pc = "done"
     /\ result # NoneValue
     /\ result.has_keys
     /\ result.participants < 2) =>
        /\ gc_response = TooFewParticipants
        /\ \A i \in DOMAIN gc_log : gc_log[i] \notin {"chat_api", "write_html"}

(***************************************************************************)
(* past_messages/main.py: save_session (lines 101-136) and load_session    *)
(* (lines 138-167) on one session id.                                      *)
(*                                                                         *)
(* upload_messages calls save_session once per session id, a fresh uuid4   *)
(* (lines 220-224); SpecSession runs that call line by line, interleaved   *)
(* with load_session calls for the same id.  A file's content is the list  *)
(* of chunks written so far; json.dump writes the text chunk by chunk.     *)
(***************************************************************************)
MaxChunks == 2
MaxLoaders == 2

Loaders == 1 .. MaxLoaders

\* the JSON text of a dict, in the chunks json.dump writes: "{", members, "}"
JsonTexts == {<<"{">> \o [i \in 1 .. n |-> "member"] \o <<"}">> : n \in 1 .. MaxChunks}

\* json.load: the text of a whole object, or an exception
JsonLoads(text) ==
    IF Len(text) >= 2 /\ text[1] = "{" /\ text[Len(text)] = "}"
    THEN [raised |-> FALSE, value |-> text]
    ELSE [raised |-> TRUE, value |-> <<>>]

NoSuchFile == [exists |-> FALSE, content |-> <<>>]

\* line 104: session_file = SESSION_DIR / f"{session_id}.json"
session_file == "session.json"

\* the temporary file is the session file itself
temp_file_in_place == session_file

\* line 105: temp_file = SESSION_DIR / f"{session_id}.tmp"
temp_file == "session.tmp"

\* what a load_session call returned: not yet, None, or the loaded data
NotReturned == [returned |-> FALSE, none |-> FALSE, data |-> <<>>]
ReturnedNone == [returned |-> TRUE, none |-> TRUE, data |-> <<>>]
ReturnedData(d) == [returned |-> TRUE, none |-> FALSE, data |-> d]

InitSession ==
    /\ sv_pc = "idle"
    /\ sv_data \in JsonTexts
    /\ session_dir = [f \in {session_file, temp_file} |-> NoSuchFile]
    /\ ld_pc = [l \in Loaders |-> "idle"]
    /\ ld_result = [l \in Loaders |-> NotReturned]
    /\ DownloadIdle
    /\ GenerateIdle
    /\ ChatIdle
    /\ BoothIdle
    /\ CompositeIdle
    /\ RunsIdle
    /\ RequestIdle
    /\ MatchIdle
    /\ masks = <<>> /\ mask_files = <<>>
    /\ face_bbox = NoMatch
    /\ selection = NotCalled

\* line 113: open(temp_file, "w") creates or truncates the file
SaveOpen ==
    /\ sv_pc = "idle"
    /\ \E ok \in BOOLEAN :
          IF ok
          THEN /\ session_dir' = [session_dir EXCEPT ![temp_file] = [exists |-> TRUE, content |-> <<>>]]
               /\ sv_pc' = "dump"
          ELSE session_dir' = session_dir /\ sv_pc' = "raised"
    /\ UNCHANGED <<sv_data, ld_pc, ld_result, imageVars, dlVars, gcVars, chatVars, boothVars, compositeVars, runVars>>

\* lines 114-116: json.dump(data, f) under the lock, one chunk per step; a
\* write may fail, which leaves the function by the handler of lines 132-136
SaveDump ==
    /\ sv_pc = "dump"
    /\ LET written == Len(session_dir[temp_file].content)
       IN  \E ok \in BOOLEAN :
              IF ~ok
              THEN session_dir' = session_dir /\ sv_pc' = "raised"
              ELSE /\ session_dir' = [session_dir EXCEPT ![temp_file].content =
                                    Append(@, sv_data[written + 1])]
                   /\ sv_pc' = IF written + 1 = Len(sv_data) THEN "rename" ELSE "dump"
    /\ UNCHANGED <<sv_data, ld_pc, ld_result, imageVars, dlVars, gcVars, chatVars, boothVars, compositeVars, runVars>>

\* line 119: temp_file.rename(session_file), atomic
SaveRename ==
    /\ sv_pc = "rename"
    /\ session_dir' = IF temp_file = session_file THEN session_dir
                ELSE [session_dir EXCEPT ![session_file] = session_dir[temp_file],
                                   ![temp_file] = NoSuchFile]
    /\ sv_pc' = "commit"
    /\ UNCHANGED <<sv_data, ld_pc, ld_result, imageVars, dlVars, gcVars, chatVars, boothVars, compositeVars, runVars>>

\* lines 122-130: generated_volume.commit(); a failure is raised to the caller
SaveCommit ==
    /\ sv_pc = "commit"
    /\ \E ok \in BOOLEAN : sv_pc' = IF ok THEN "returned" ELSE "raised"
    /\ UNCHANGED <<sv_data, session_dir, ld_pc, ld_result, imageVars, dlVars, gcVars, chatVars, boothVars, compositeVars, runVars>>

\* lines 141-146: generated_volume.reload(), a failure is caught and logged
LoadReload(l) ==
    /\ ld_pc[l] = "idle"
    /\ ld_pc' = [ld_pc EXCEPT ![l] = "exists"]
    /\ UNCHANGED <<sv_pc, sv_data, session_dir, ld_result, imageVars, dlVars, gcVars, chatVars, boothVars, compositeVars, runVars>>

\* lines 153-156: if not session_file.exists(): return None
LoadExists(l) ==
    /\ ld_pc[l] = "exists"
    /\ IF ~session_dir[session_file].exists
       THEN /\ ld_pc' = [ld_pc EXCEPT ![l] = "done"]
            /\ ld_result' = [ld_result EXCEPT ![l] = ReturnedNone]
       ELSE /\ ld_pc' = [ld_pc EXCEPT ![l] = "read"]
            /\ ld_result' = ld_result
    /\ UNCHANGED <<sv_pc, sv_data, session_dir, imageVars, dlVars, gcVars, chatVars, boothVars, compositeVars, runVars>>

\* lines 158-167: json.load of the file; any exception returns None
LoadRead(l) ==
    /\ ld_pc[l] = "read"
    /\ LET loaded == JsonLoads(session_dir[session_file].content)
       IN  ld_result' = [ld_result EXCEPT ![l] =
                            IF loaded.raised \/ ~session_dir[session_file].exists
                            THEN ReturnedNone
                            ELSE ReturnedData(loaded.value)]
    /\ ld_pc' = [ld_pc EXCEPT ![l] = "done"]
    /\ UNCHANGED <<sv_pc, sv_data, session_dir, imageVars, dlVars, gcVars, chatVars, boothVars, compositeVars, runVars>>

NextSession ==
    \/ SaveOpen
    \/ SaveDump
    \/ SaveRename
    \/ SaveCommit
    \/ \E l \in Loaders : LoadReload(l)
    \/ \E l \in Loaders : LoadExists(l)
    \/ \E l \in Loaders : LoadRead(l)

SpecSession == InitSession /\ [][NextSession]_vars

\* C27: whatever the interleaving of the save_session call with the
\* load_session calls, the session file exists under its final name only with
\* the complete text of the saved data, and a load_session call that has
\* returned gave None or the complete saved data, never a part of it and never
\* the content of an empty file.
C27_SessionFileAtomic ==
    /\ session_dir[session_file].exists => session_dir[session_file].content = sv_data
    /\ \A l \in Loaders :
          ld_result[l] \in {NotReturned, ReturnedNone, ReturnedData(sv_data)}
    /\ \A l \in Loaders :
          (ld_pc[l] = "done") <=> ld_result[l].returned

\* reached: one load_session call returned None while the temporary file was
\* half written, another returned the saved data after the rename
C27_Witness ==
    /\ sv_pc \in {"commit", "returned"}
    /\ \E l1, l2 \in Loaders :
          /\ ld_result[l1] = ReturnedNone
          /\ ld_result[l2] = ReturnedData(sv_data)

(***************************************************************************)
(* present/main.py: chat_loop (lines 146-249)                              *)
(*                                                                         *)
(* SpecChat runs the loop: a line is read, stripped and dispatched; a      *)
(* message is sent with the whole history and the answer is streamed.  A   *)
(* line is the list of its characters.  Exception stands for every         *)
(* exception "except Exception" catches; KeyboardInterrupt is not one of   *)
(* them and leaves the function.                                           *)
(***************************************************************************)
MaxTurns == 2
MaxStream == 2

\* the lines typed
RawLines ==
    {<<>>, <<" ", " ">>,
     <<"q", "u", "i", "t">>, <<" ", "Q", "U", "I", "T">>,
     <<"E", "x", "i", "t", " ">>,
     <<"H", "i", "s", "t", "o", "r", "y">>,
     <<"h", "i">>}

RECURSIVE LStrip(_)
LStrip(line) ==
    IF line # <<>> /\ Head(line) = " " THEN LStrip(Tail(line)) ELSE line

RECURSIVE RStrip(_)
RStrip(line) ==
    IF line # <<>> /\ line[Len(line)] = " "
    THEN RStrip(SubSeq(line, 1, Len(line) - 1)) ELSE line

\* str.strip()
Strip(line) == RStrip(LStrip(line))

LowerChar(c) ==
    CASE c = "Q" -> "q" [] c = "U" -> "u" [] c = "I" -> "i" [] c = "T" -> "t"
      [] c = "E" -> "e" [] c = "H" -> "h" [] OTHER -> c

\* str.lower()
Lower(line) == [i \in DOMAIN line |-> LowerChar(line[i])]

Message(role, content) == [role |-> role, content |-> content]

\* line 156
SystemMessage == Message("system", <<"system_prompt">>)

\* the failed user message stays in the history
HandleFailureKeeps(msgs) == msgs

\* line 249: messages.pop()
HandleFailure(msgs) == SubSeq(msgs, 1, Len(msgs) - 1)

InitChat ==
    /\ chat_pc = "input"
    /\ messages = <<SystemMessage>>
    /\ user_input = <<>>
    /\ assistant_message = <<>>
    /\ before = <<SystemMessage>>
    /\ call_failed = FALSE
    /\ DownloadIdle
    /\ GenerateIdle
    /\ SessionIdle
    /\ BoothIdle
    /\ CompositeIdle
    /\ RunsIdle
    /\ RequestIdle
    /\ MatchIdle
    /\ masks = <<>> /\ mask_files = <<>>
    /\ face_bbox = NoMatch
    /\ selection = NotCalled

\* lines 167-199: a line is read and dispatched; a message is appended to the
\* history (line 199)
ReadLine ==
    /\ chat_pc = "input"
    /\ \E raw \in RawLines :
          LET line == Strip(raw)
          IN  /\ user_input' = line
              /\ IF line = <<>>
                 THEN chat_pc' = "input" /\ messages' = messages
                 ELSE IF Lower(line) \in {<<"q", "u", "i", "t">>, <<"e", "x", "i", "t">>}
                 THEN chat_pc' = "ended" /\ messages' = messages
                 ELSE IF Lower(line) = <<"h", "i", "s", "t", "o", "r", "y">>
                 THEN chat_pc' = "input" /\ messages' = messages
                 ELSE /\ Len(messages) < 1 + 2 * MaxTurns
                      /\ messages' = Append(messages, Message("user", line))
                      /\ chat_pc' = "create"
    /\ before' = messages
    /\ call_failed' = FALSE
    /\ UNCHANGED <<assistant_message, imageVars, dlVars, gcVars, ssVars, boothVars, compositeVars, runVars>>

\* lines 168-172: input() raises EOFError or KeyboardInterrupt
EndOfInput ==
    /\ chat_pc = "input"
    /\ chat_pc' = "ended"
    /\ UNCHANGED <<messages, user_input, assistant_message, before, call_failed,
                   imageVars, dlVars, gcVars, ssVars, boothVars, compositeVars, runVars>>

\* lines 208-216: client.chat.completions.create returns a stream
CreateStream ==
    /\ chat_pc = "create"
    /\ chat_pc' = "stream"
    /\ assistant_message' = <<>>
    /\ UNCHANGED <<messages, user_input, before, call_failed,
                   imageVars, dlVars, gcVars, ssVars, boothVars, compositeVars, runVars>>

\* lines 222-226: a chunk of the stream, with or without content
StreamChunk ==
    /\ chat_pc = "stream"
    /\ Len(assistant_message) < MaxStream
    /\ \E content \in {None, "token"} :
          assistant_message' = IF content # None
                               THEN Append(assistant_message, content)
                               ELSE assistant_message
    /\ UNCHANGED <<chat_pc, messages, user_input, before, call_failed,
                   imageVars, dlVars, gcVars, ssVars, boothVars, compositeVars, runVars>>

\* lines 228-244: the stream is exhausted, the answer joins the history
StreamEnds ==
    /\ chat_pc = "stream"
    /\ messages' = Append(messages, Message("assistant", assistant_message))
    /\ chat_pc' = "input"
    /\ UNCHANGED <<user_input, assistant_message, before, call_failed,
                   imageVars, dlVars, gcVars, ssVars, boothVars, compositeVars, runVars>>

\* lines 246-249: the call or the stream raises an Exception
CallFails ==
    /\ chat_pc \in {"create", "stream"}
    /\ messages' = HandleFailure(messages)
    /\ call_failed' = TRUE
    /\ chat_pc' = "input"
    /\ UNCHANGED <<user_input, assistant_message, before,
                   imageVars, dlVars, gcVars, ssVars, boothVars, compositeVars, runVars>>

\* KeyboardInterrupt during the call or the stream: not caught, chat_loop is
\* left with the exception
Interrupted ==
    /\ chat_pc \in {"create", "stream"}
    /\ chat_pc' = "interrupted"
    /\ UNCHANGED <<messages, user_input, assistant_message, before, call_failed,
                   imageVars, dlVars, gcVars, ssVars, boothVars, compositeVars, runVars>>

NextChat ==
    \/ ReadLine
    \/ EndOfInput
    \/ CreateStream
    \/ StreamChunk
    \/ StreamEnds
    \/ CallFails
    \/ Interrupted

SpecChat == InitChat /\ [][NextChat]_vars

\* the system prompt first, then user and assistant messages in turn
Alternating(msgs) ==
    /\ msgs # <<>>
    /\ msgs[1] = SystemMessage
    /\ \A i \in 2 .. Len(msgs) :
          msgs[i].role = IF i % 2 = 0 THEN "user" ELSE "assistant"

\* the stripped line is empty or one of the commands, in any case
CommandLine(line) ==
    \/ line = <<>>
    \/ Lower(line) \in {<<"q", "u", "i", "t">>, <<"e", "x", "i", "t">>,
                        <<"h", "i", "s", "t", "o", "r", "y">>}

MaxScenes == 2
MaxPolls == 2

\* the entries of the scenes list: a dict with or without a prompt, or a
\* value that is not a dict
Scenes == {[type |-> "dict", label |-> "scene", prompt |-> TRUE],
           [type |-> "dict", label |-> "scene", prompt |-> FALSE],
           [type |-> "str", label |-> "", prompt |-> FALSE]}

\* config.yml: missing, without a usable scenes list, or with scenes
Configs ==
    {[kind |-> "missing", scenes |-> <<>>], [kind |-> "invalid", scenes |-> <<>>]}
        \cup {[kind |-> "scenes", scenes |-> sc] :
                 sc \in UNION {[1 .. n -> Scenes] : n \in 1 .. MaxScenes}}

\* lines 157-162
NewSession == [images |-> <<"original">>, status |-> "processing", total |-> 0,
               completed |-> 1]

\* lines 193-199 and 226-229: from scene i on, the task runs to its next
\* await (line 203), to its end, or into an AttributeError at scene.get
RECURSIVE RunFrom(_, _)
RunFrom(scenes, i) ==
    IF i > Len(scenes) THEN [pc |-> "done", idx |-> i]
    ELSE IF scenes[i].type # "dict" THEN [pc |-> "crashed", idx |-> i]
    ELSE IF ~scenes[i].prompt THEN RunFrom(scenes, i + 1)
    ELSE [pc |-> "awaiting", idx |-> i]

\* lines 227-228
MarkCompleted(sessions, sid) ==
    IF sid \in DOMAIN sessions
    THEN [sessions EXCEPT ![sid].status = "completed"]
    ELSE sessions

\* lines 217-219
AddImage(sessions, sid, label) ==
    IF sid \in DOMAIN sessions
    THEN [sessions EXCEPT ![sid].images = Append(@, label),
                          ![sid].completed = @ + 1]
    ELSE sessions

\* uid = uuid.uuid4().hex[:8] (line 134)
session_uid == "uid"

InitBooth ==
    /\ gs_pc = "idle"
    /\ config \in Configs
    /\ generation_sessions = <<>>
    /\ bg_pc = "none"
    /\ scene_idx = 0
    /\ polls = <<>>
    /\ DownloadIdle
    /\ GenerateIdle
    /\ SessionIdle
    /\ ChatIdle
    /\ CompositeIdle
    /\ RunsIdle
    /\ RequestIdle
    /\ MatchIdle
    /\ masks = <<>> /\ mask_files = <<>>
    /\ face_bbox = NoMatch
    /\ selection = NotCalled

\* lines 139-188, after the upload was read: the original is processed, the
\* session stored (line 157), then config.yml read (lines 165-174: 500 when it
\* is missing or has no scenes list), the total set and the task added
GenerateStart ==
    /\ gs_pc = "idle"
    /\ \E image_ok \in BOOLEAN :
          IF ~image_ok
          THEN /\ gs_pc' = "400"
               /\ UNCHANGED <<generation_sessions, bg_pc>>
          ELSE /\ generation_sessions' =
                     [s \in {session_uid} |->
                         IF config.kind = "scenes"
                         THEN [NewSession EXCEPT !.total = Len(config.scenes) + 1]
                         ELSE NewSession]
               /\ gs_pc' = IF config.kind = "scenes" THEN "200" ELSE "500"
               /\ bg_pc' = IF config.kind = "scenes" THEN "scheduled" ELSE "none"
    /\ UNCHANGED <<config, scene_idx, polls, imageVars, dlVars, gcVars, ssVars, chatVars, compositeVars, runVars>>

\* the scheduled task runs from the first scene (lines 190-203)
StartTask ==
    /\ bg_pc = "scheduled"
    /\ LET run == RunFrom(config.scenes, 1)
       IN  /\ bg_pc' = run.pc
           /\ scene_idx' = run.idx
           /\ generation_sessions' =
                 IF run.pc = "done"
                 THEN MarkCompleted(generation_sessions, session_uid)
                 ELSE generation_sessions
    /\ UNCHANGED <<gs_pc, config, polls, imageVars, dlVars, gcVars, ssVars, chatVars, compositeVars, runVars>>

\* transform_image returns or raises (lines 203-223), and the task runs on
TransformReturns ==
    /\ bg_pc = "awaiting"
    /\ \E ok \in BOOLEAN :
          LET run == RunFrom(config.scenes, scene_idx + 1)
              added == IF ok
                       THEN AddImage(generation_sessions, session_uid,
                                     config.scenes[scene_idx].label)
                       ELSE generation_sessions
          IN  /\ bg_pc' = run.pc
              /\ scene_idx' = run.idx
              /\ generation_sessions' =
                    IF run.pc = "done" THEN MarkCompleted(added, session_uid)
                    ELSE added
    /\ UNCHANGED <<gs_pc, config, polls, imageVars, dlVars, gcVars, ssVars, chatVars, compositeVars, runVars>>

\* lines 231-254: the answer for the session id of this session
GenerateStatus ==
    /\ Len(polls) < MaxPolls
    /\ polls' = Append(polls,
                   IF session_uid \notin DOMAIN generation_sessions
                   THEN [code |-> 404, status |-> "", completed |-> 0, total |-> 0,
                         images |-> <<>>]
                   ELSE [code |-> 200,
                         status |-> generation_sessions[session_uid].status,
                         completed |-> generation_sessions[session_uid].completed,
                         total |-> generation_sessions[session_uid].total,
                         images |-> generation_sessions[session_uid].images])
    /\ UNCHANGED <<gs_pc, config, generation_sessions, bg_pc, scene_idx,
                   imageVars, dlVars, gcVars, ssVars, chatVars, compositeVars, runVars>>

NextBooth ==
    \/ GenerateStart
    \/ StartTask
    \/ TransformReturns
    \/ GenerateStatus

SpecBooth == InitBooth /\ [][NextBooth]_vars

\* the answers of generate_status that found the session
Answered == {i \in DOMAIN polls : polls[i].code = 200}

\* C28 as stated: every answer of generate_status shows completed equal to
\* the number of images, the original first and completed <= total; from one
\* answer to a later one the images only grow at the end and the status never
\* goes from completed back to processing.
C28_SessionInvariant ==
    /\ \A i \in Answered :
          /\ polls[i].completed = Len(polls[i].images)
          /\ polls[i].images[1] = "original"
          /\ polls[i].completed <= polls[i].total
          /\ polls[i].status \in {"processing", "completed"}
    /\ \A i, j \in Answered :
          i < j =>
              /\ Len(polls[i].images) <= Len(polls[j].images)
              /\ SubSeq(polls[j].images, 1, Len(polls[i].images)) = polls[i].images
              /\ polls[i].status = "completed" => polls[j].status = "completed"

\* C29 as stated, on finite runs: once generate_start has ended and no
\* background work is scheduled or running, a stored session has the status
\* completed; none is left in processing.
C29_StoredSessionCompletes ==
    (/\ gs_pc # "idle"
     /\ bg_pc \notin {"scheduled", "awaiting"}
     /\ session_uid \in DOMAIN generation_sessions) =>
        generation_sessions[session_uid].status = "completed"

(***************************************************************************)
(* future/main.py: create_composite_image (lines 257-338)                  *)
(*                                                                         *)
(* SpecComposite applies the function to drawn lists of paths.  A path is  *)
(* the list of its components, a component the list of its characters, so  *)
(* that str(p).startswith(...) compares characters as the code does.  An   *)
(* entry of image_paths carries, with its path, what the file system holds *)
(* there: whether the file exists and the size of the image.               *)
(***************************************************************************)
MaxPaths == 7

\* GEN_DIR = APP_ROOT / "generated" (lines 33-34): here /g
GEN_DIR == <<<<"g">>>>

ParentDir == <<".", ".">>

\* Path.resolve() on the components
RECURSIVE ResolvePath(_, _)
ResolvePath(done, rest) ==
    IF rest = <<>> THEN done
    ELSE IF Head(rest) = ParentDir
    THEN ResolvePath(IF done = <<>> THEN <<>> ELSE SubSeq(done, 1, Len(done) - 1),
                     Tail(rest))
    ELSE ResolvePath(Append(done, Head(rest)), Tail(rest))

\* str(path): "/" before every component
RECURSIVE PathStr(_)
PathStr(path) ==
    IF path = <<>> THEN <<>>
    ELSE <<"/">> \o Head(path) \o PathStr(Tail(path))

\* str.startswith
StartsWith(str, prefix) ==
    /\ Len(prefix) <= Len(str)
    /\ SubSeq(str, 1, Len(prefix)) = prefix

\* the entries drawn: two images in /g, a path in /g with no file, an image in
\* the sibling directory /gx, an image in /h reached through /g/..
PathEntry(path, exists, w, h) == [path |-> path, exists |-> exists, w |-> w, h |-> h]
PathEntries ==
    {PathEntry(<<<<"g">>, <<"a">>>>, TRUE, 3000, 2000),
     PathEntry(<<<<"g">>, <<"b">>>>, TRUE, 400, 1000),
     PathEntry(<<<<"g">>, <<"c">>>>, FALSE, 0, 0),
     PathEntry(<<<<"g", "x">>, <<"a">>>>, TRUE, 600, 600),
     PathEntry(<<<<"g">>, ParentDir, <<"h">>, <<"a">>>>, TRUE, 600, 600)}

\* lines 260-267: the entries kept, in order
RECURSIVE ValidPaths(_)
ValidPaths(paths) ==
    IF paths = <<>> THEN <<>>
    ELSE LET p == ResolvePath(<<>>, Head(paths).path)
             keep == /\ StartsWith(PathStr(p), PathStr(ResolvePath(<<>>, GEN_DIR)))
                     /\ Head(paths).exists
         IN  (IF keep THEN <<Head(paths)>> ELSE <<>>) \o ValidPaths(Tail(paths))

\* lines 280-292
GridCols(n) == IF n <= 2 THEN n ELSE IF n <= 4 THEN 2 ELSE 3
GridRows(n) == IF n <= 2 THEN 1 ELSE 2

\* lines 296-297
composite_width == 1800
composite_height == 1200

\* line 308: Image.thumbnail shrinks the image into the box, keeping its
\* aspect ratio, and never enlarges it
Thumbnail(w, h, box_w, box_h) ==
    IF w <= box_w /\ h <= box_h THEN [w |-> w, h |-> h]
    ELSE IF w * box_h >= h * box_w
    THEN [w |-> box_w, h |-> Max(1, (h * box_w) \div w)]
    ELSE [w |-> Max(1, (w * box_h) \div h), h |-> box_h]

\* lines 306-329 for the image at position i (0-based) of n
Paste(img, i, n) ==
    LET thumb_width == composite_width \div GridCols(n)
        thumb_height == composite_height \div GridRows(n)
        size == Thumbnail(img.w, img.h, thumb_width, thumb_height)
        row == IF n = 5 THEN (IF i < 3 THEN 0 ELSE 1) ELSE i \div GridCols(n)
        col == IF n = 5 THEN (IF i < 3 THEN i ELSE i - 3) ELSE i % GridCols(n)
        x_offset == IF n = 5 /\ i >= 3 THEN thumb_width \div 2 ELSE 0
    IN  [path |-> img.path, row |-> row, col |-> col,
         x |-> col * thumb_width + (thumb_width - size.w) \div 2 + x_offset,
         y |-> row * thumb_height + (thumb_height - size.h) \div 2,
         w |-> size.w, h |-> size.h]

CompositeRaise(msg) == [kind |-> "raise", error |-> msg, pastes |-> <<>>]
CompositeResult(pastes) == [kind |-> "return", error |-> "", pastes |-> pastes]

CreateCompositeImage(paths) ==
    LET valid == ValidPaths(paths)
    IN  IF valid = <<>> THEN CompositeRaise("No valid images to print")
        ELSE CompositeResult([k \in 1 .. Len(valid) |-> Paste(valid[k], k - 1, Len(valid))])

InitComposite ==
    /\ image_paths \in SeqsUpTo(PathEntries, MaxPaths)
    /\ composite = [kind |-> "pending", error |-> "", pastes |-> <<>>]
    /\ DownloadIdle
    /\ GenerateIdle
    /\ SessionIdle
    /\ ChatIdle
    /\ BoothIdle
    /\ RunsIdle
    /\ RequestIdle
    /\ MatchIdle
    /\ masks = <<>> /\ mask_files = <<>>
    /\ face_bbox = NoMatch
    /\ selection = NotCalled

CallCreateCompositeImage ==
    /\ composite.kind = "pending"
    /\ composite' = CreateCompositeImage(image_paths)
    /\ UNCHANGED <<image_paths, imageVars, dlVars, gcVars, ssVars, chatVars, boothVars, runVars>>

NextComposite == CallCreateCompositeImage

SpecComposite == InitComposite /\ [][NextComposite]_vars

\* the entries whose resolved path lies in GEN_DIR and whose file exists
InGenDir(entry) ==
    LET p == ResolvePath(<<>>, entry.path)
        g == ResolvePath(<<>>, GEN_DIR)
    IN  Len(g) <= Len(p) /\ SubSeq(p, 1, Len(g)) = g

RECURSIVE Filter(_)
Filter(paths) ==
    IF paths = <<>> THEN <<>>
    ELSE (IF InGenDir(Head(paths)) /\ Head(paths).exists THEN <<Head(paths).path>> ELSE <<>>)
             \o Filter(Tail(paths))

\* C30 as stated: the call fails with 'No valid images to print' exactly when
\* no path is inside the generated directory and existing; otherwise the
\* images pasted are those of the paths inside it and existing, in order,
\* each in a rectangle inside the 1800x1200 canvas, no two in the same cell.
C30_AllImagesOnThePage ==
    composite.kind # "pending" =>
        /\ (composite.kind = "raise") <=> (Filter(image_paths) = <<>>)
        /\ composite.kind = "raise" => composite.error = "No valid images to print"
        /\ composite.kind = "return" =>
              /\ [k \in DOMAIN composite.pastes |-> composite.pastes[k].path]
                    = Filter(image_paths)
              /\ \A k \in DOMAIN composite.pastes :
                    LET p == composite.pastes[k]
                    IN  /\ 0 <= p.x /\ p.x + p.w <= 1800
                        /\ 0 <= p.y /\ p.y + p.h <= 1200
              /\ \A j, k \in DOMAIN composite.pastes :
                    j # k => <<composite.pastes[j].row, composite.pastes[j].col>>
                                # <<composite.pastes[k].row, composite.pastes[k].col>>

(***************************************************************************)
(* past_images/main.py: two process_images requests at once.               *)
(*                                                                         *)
(* The deployment runs up to 4 containers (line 76) on the same volumes    *)
(* (lines 77-81).  SpecRuns takes the volumes as one file system and       *)
(* interleaves two requests, each with one target (idx = 0), stage by      *)
(* stage; inpaint_with_lama is split where it writes its inputs, runs the  *)
(* subprocess, and reads and removes its directories.  A directory holds   *)
(* the number of the request whose files are in it, 0 when it is absent.   *)
(***************************************************************************)
Runs == {1, 2}

\* session_id as the callers pass it: none, or a name
RunSessionIds == {None, "s1", "s1_0"}

\* str(uuid.uuid4()): a fresh value at every call
Uuid4(r) == IF r = 1 THEN "uuid4-a" ELSE "uuid4-b"

\* lines 519-520
SessionOf(r, sid) == IF sid = None THEN Uuid4(r) ELSE sid

\* one directory name for every session
SharedName(sid, i) == "0"

\* f"{session_id}_{idx}" (lines 549, 557, 560, 570), idx = 0
ScopedName(sid, i) == sid \o "_" \o (IF i = 0 THEN "0" ELSE "1")

\* lines 384-385
LamaInName(scoped) == scoped \o "_lama_in"
LamaOutName(scoped) == scoped \o "_lama_out"

\* line 573: f"{session_id}_{idx}_{uuid.uuid4()}.jpg"
OutputName(scoped, r) == scoped \o "_" \o Uuid4(r) \o ".jpg"

AllSessions == {SessionOf(r, sid) : r \in Runs, sid \in RunSessionIds}
AllScoped == {ScopedName(sid, 0) : sid \in AllSessions}

\* the name of the request's directories
Scoped(r) == ScopedName(run_sid[r], 0)

\* what an access of request r to a directory held by w adds to the history
Access(r, op, dir, w, mine) ==
    IF w = r \/ (w = 0 /\ ~mine) THEN {}
    ELSE {[run |-> r, op |-> op, dir |-> dir, of |-> w]}

InitRuns ==
    /\ run_pc = [r \in Runs |-> "idle"]
    /\ run_sid = [r \in Runs |-> None]
    /\ mask_dirs = [d \in AllScoped |-> 0]
    /\ lama_in = [d \in {LamaInName(x) : x \in AllScoped} |-> 0]
    /\ lama_out = [d \in {LamaOutName(x) : x \in AllScoped} |-> 0]
    /\ outputs = [f \in {OutputName(x, r) : x \in AllScoped, r \in Runs} |-> 0]
    /\ collisions = {}
    /\ DownloadIdle
    /\ GenerateIdle
    /\ SessionIdle
    /\ ChatIdle
    /\ BoothIdle
    /\ CompositeIdle
    /\ RequestIdle
    /\ MatchIdle
    /\ masks = <<>> /\ mask_files = <<>>
    /\ face_bbox = NoMatch
    /\ selection = NotCalled

\* lines 501-546: the request is received, its session id fixed
BeginRun(r) ==
    /\ run_pc[r] = "idle"
    /\ \E sid \in RunSessionIds : run_sid' = [run_sid EXCEPT ![r] = SessionOf(r, sid)]
    /\ run_pc' = [run_pc EXCEPT ![r] = "segment"]
    /\ UNCHANGED <<mask_dirs, lama_in, lama_out, outputs, collisions,
                   imageVars, dlVars, gcVars, ssVars, chatVars, boothVars, compositeVars>>

\* segment_image, lines 199-207: mkdir(exist_ok=True), the mask files written
RunSegment(r) ==
    /\ run_pc[r] = "segment"
    /\ collisions' = collisions \cup Access(r, "overwrite", Scoped(r), mask_dirs[Scoped(r)], FALSE)
    /\ mask_dirs' = [mask_dirs EXCEPT ![Scoped(r)] = r]
    /\ run_pc' = [run_pc EXCEPT ![r] = "select"]
    /\ UNCHANGED <<run_sid, lama_in, lama_out, outputs,
                   imageVars, dlVars, gcVars, ssVars, chatVars, boothVars, compositeVars>>

\* select_best_mask (lines 312-318) and line 560-562: the mask files are read
RunSelect(r) ==
    /\ run_pc[r] = "select"
    /\ collisions' = collisions \cup Access(r, "read", Scoped(r), mask_dirs[Scoped(r)], TRUE)
    /\ run_pc' = [run_pc EXCEPT ![r] = "inpaint_write"]
    /\ UNCHANGED <<run_sid, mask_dirs, lama_in, lama_out, outputs,
                   imageVars, dlVars, gcVars, ssVars, chatVars, boothVars, compositeVars>>

\* inpaint_with_lama, lines 383-400: the directories made, image and mask written
RunInpaintWrite(r) ==
    /\ run_pc[r] = "inpaint_write"
    /\ collisions' = collisions
          \cup Access(r, "overwrite", LamaInName(Scoped(r)), lama_in[LamaInName(Scoped(r))], FALSE)
    /\ lama_in' = [lama_in EXCEPT ![LamaInName(Scoped(r))] = r]
    /\ run_pc' = [run_pc EXCEPT ![r] = "inpaint_run"]
    /\ UNCHANGED <<run_sid, mask_dirs, lama_out, outputs,
                   imageVars, dlVars, gcVars, ssVars, chatVars, boothVars, compositeVars>>

\* lines 402-440: the subprocess reads the input directory and writes the result
RunInpaintProcess(r) ==
    /\ run_pc[r] = "inpaint_run"
    /\ collisions' = collisions
          \cup Access(r, "read", LamaInName(Scoped(r)), lama_in[LamaInName(Scoped(r))], TRUE)
          \cup Access(r, "overwrite", LamaOutName(Scoped(r)), lama_out[LamaOutName(Scoped(r))], FALSE)
    /\ lama_out' = [lama_out EXCEPT ![LamaOutName(Scoped(r))] = r]
    /\ run_pc' = [run_pc EXCEPT ![r] = "inpaint_read"]
    /\ UNCHANGED <<run_sid, mask_dirs, lama_in, outputs,
                   imageVars, dlVars, gcVars, ssVars, chatVars, boothVars, compositeVars>>

\* lines 442-476: the result is read, both directories are removed
RunInpaintRead(r) ==
    /\ run_pc[r] = "inpaint_read"
    /\ collisions' = collisions
          \cup Access(r, "read", LamaOutName(Scoped(r)), lama_out[LamaOutName(Scoped(r))], TRUE)
          \cup Access(r, "delete", LamaInName(Scoped(r)), lama_in[LamaInName(Scoped(r))], FALSE)
          \cup Access(r, "delete", LamaOutName(Scoped(r)), lama_out[LamaOutName(Scoped(r))], FALSE)
    /\ lama_in' = [lama_in EXCEPT ![LamaInName(Scoped(r))] = 0]
    /\ lama_out' = [lama_out EXCEPT ![LamaOutName(Scoped(r))] = 0]
    /\ run_pc' = [run_pc EXCEPT ![r] = "save"]
    /\ UNCHANGED <<run_sid, mask_dirs, outputs,
                   imageVars, dlVars, gcVars, ssVars, chatVars, boothVars, compositeVars>>

\* lines 573-601: the output file
RunSave(r) ==
    /\ run_pc[r] = "save"
    /\ collisions' = collisions
          \cup Access(r, "overwrite", OutputName(Scoped(r), r), outputs[OutputName(Scoped(r), r)], FALSE)
    /\ outputs' = [outputs EXCEPT ![OutputName(Scoped(r), r)] = r]
    /\ run_pc' = [run_pc EXCEPT ![r] = "done"]
    /\ UNCHANGED <<run_sid, mask_dirs, lama_in, lama_out,
                   imageVars, dlVars, gcVars, ssVars, chatVars, boothVars, compositeVars>>

NextRuns ==
    \/ \E r \in Runs : BeginRun(r)
    \/ \E r \in Runs : RunSegment(r)
    \/ \E r \in Runs : RunSelect(r)
    \/ \E r \in Runs : RunInpaintWrite(r)
    \/ \E r \in Runs : RunInpaintProcess(r)
    \/ \E r \in Runs : RunInpaintRead(r)
    \/ \E r \in Runs : RunSave(r)

SpecRuns == InitRuns /\ [][NextRuns]_vars

====
